---- MODULE Spec2Model ----
(***************************************************************************)
(* A model of the ESON parser (crates/parser): the nom grammar of values,  *)
(* lists, dictionaries, keys and annotations, the expression tokenizer and *)
(* the precedence-climbing expression parser.                              *)
(*                                                                         *)
(* Text (&str) is a sequence of one-character strings.  A nom result is a  *)
(* record [k, rest, v]: k is "Ok", "Error" (nom::Err::Error, recoverable), *)
(* "Failure" (nom::Err::Failure, after cut) or "Panic" (the process        *)
(* aborts); rest is the remaining input of an Ok, and the input at the     *)
(* innermost error otherwise.                                              *)
(***************************************************************************)
EXTENDS Integers, Sequences, FiniteSets, TLC

VARIABLES
    tokens,     \* expr.rs: the Vec<ExprToken> handed to Parser::new
    inner,      \* util.rs Iter.inner: the tokens not yet taken
    cursor,     \* util.rs Iter.cursor
    stack,      \* the activation records of Parser::parse, innermost last
    ret,        \* the ExprChunk returned by the outermost Parser::parse
    status,     \* "idle" | "running" | "returned" | "panicked"
    input,      \* the text handed to a grammar entry point
    entry,      \* the entry point that was called, "none" before the call
    result      \* what the entry point returned

vars == <<tokens, inner, cursor, stack, ret, status, input, entry, result>>

exprVars == <<tokens, inner, cursor, stack, ret, status>>
textVars == <<input, entry, result>>

(***************************************************************************)
(* Bounds of the model.                                                    *)
(***************************************************************************)
\* longest free-form token sequence handed to the expression parser
MaxTokens == 3
\* longest freely chosen digit string of a numeric literal
MaxDigits == 3
\* most key-value pairs of a generated dictionary
MaxPairs == 3
\* most elements of a generated list or dict body
MaxItems == 2
\* the longest argument list of an annotation and of a function call
MaxArgs == 3
\* the longest path of a generated reference
MaxPath == 3
\* most hashes of a generated fence, and most characters of a generated
\* string content
MaxHashes == 1
MaxContent == 2
\* most pieces (literal runs, escapes, splices) of a generated string
MaxPieces == 3
\* most units (blanks, line breaks, comments) before the text of a skipped input
MaxUnits == 3

(***************************************************************************)
(* Text helpers.                                                           *)
(***************************************************************************)
\* a Rust string literal as text
Chars(s) == [i \in 1..Len(s) |-> SubSeq(s, i, i)]

\* &input[n..]
Drop(i, n) == SubSeq(i, n + 1, Len(i))

\* input.starts_with(t)
StartsWith(i, t) == Len(i) >= Len(t) /\ SubSeq(i, 1, Len(t)) = t

RECURSIVE Concat(_)
\* String::from(&str): the characters joined into one string
Concat(cs) == IF cs = <<>> THEN "" ELSE Head(cs) \o Concat(Tail(cs))

RECURSIVE Rep(_, _)
\* the character c, n times
Rep(c, n) == IF n = 0 THEN <<>> ELSE <<c>> \o Rep(c, n - 1)

Ok(rest, v) == [k |-> "Ok", rest |-> rest, v |-> v]
Error(at) == [k |-> "Error", rest |-> at]
Failure(at) == [k |-> "Failure", rest |-> at]
Panic(at) == [k |-> "Panic", rest |-> at]

(***************************************************************************)
(* i64 as three 21-bit limbs <<high, middle, low>>: 63 value bits, so that *)
(* a carry out of the high limb is exactly an overflow of i64::MAX.        *)
(***************************************************************************)
LimbBase == 2^21

\* a small non-negative number as an i64
I64(n) == <<0, n \div LimbBase, n % LimbBase>>

\* lib.rs EsonSegment::Int / EsonLiteralSegment::Int
IntSeg(limbs) == [t |-> "Int", v |-> limbs]

(***************************************************************************)
(* numeric.rs                                                              *)
(***************************************************************************)
BinDigits == {"0", "1"}
OctDigits == {"0", "1", "2", "3", "4", "5", "6", "7"}
DecDigits == OctDigits \cup {"8", "9"}
HexDigits == DecDigits \cup {"a", "b", "c", "d", "e", "f", "A", "B", "C", "D", "E", "F"}

\* char::to_digit
DigitValue(c) ==
    CASE c = "0" -> 0 [] c = "1" -> 1 [] c = "2" -> 2 [] c = "3" -> 3
      [] c = "4" -> 4 [] c = "5" -> 5 [] c = "6" -> 6 [] c = "7" -> 7
      [] c = "8" -> 8 [] c = "9" -> 9
      [] c \in {"a", "A"} -> 10 [] c \in {"b", "B"} -> 11
      [] c \in {"c", "C"} -> 12 [] c \in {"d", "D"} -> 13
      [] c \in {"e", "E"} -> 14 [] c \in {"f", "F"} -> 15

RECURSIVE SpanLen(_, _)
\* the length of the longest prefix of i made of characters of S
SpanLen(i, S) ==
    IF i # <<>> /\ Head(i) \in S THEN 1 + SpanLen(Tail(i), S) ELSE 0

\* nom take_while1 / digit1: a non-empty run of characters of S
take_while1(i, S) ==
    LET n == SpanLen(i, S)
    IN  IF n = 0 THEN Error(i) ELSE Ok(Drop(i, n), SubSeq(i, 1, n))

\* nom take_while / multispace0: a possibly empty run of characters of S
take_while(i, S) ==
    LET n == SpanLen(i, S)
    IN  Ok(Drop(i, n), SubSeq(i, 1, n))

\* nom tag
tag(t, i) == IF StartsWith(i, t) THEN Ok(Drop(i, Len(t)), t) ELSE Error(i)

\* acc * radix + digit on an i64 kept as limbs: checked_mul and checked_add
CheckedMulAdd(acc, radix, digit) ==
    LET low == acc[3] * radix + digit
        mid == acc[2] * radix + (low \div LimbBase)
        high == acc[1] * radix + (mid \div LimbBase)
    IN  IF high >= LimbBase
        THEN [ok |-> FALSE]
        ELSE [ok |-> TRUE, v |-> <<high, mid % LimbBase, low % LimbBase>>]

RECURSIVE FromDigits(_, _, _)
FromDigits(acc, s, radix) ==
    IF s = <<>> THEN [ok |-> TRUE, v |-> acc]
    ELSE LET next == CheckedMulAdd(acc, radix, DigitValue(Head(s)))
         IN  IF next.ok THEN FromDigits(next.v, Tail(s), radix) ELSE next

\* i64::from_str_radix on a non-empty string of digits of the radix:
\* Ok(value), or Err(PosOverflow) when the value is above i64::MAX
from_str_radix(s, radix) == FromDigits(I64(0), s, radix)

\* the closure of the first three alternatives:
\* EsonSegment::Int(i64::from_str_radix(s, radix).expect("TODO"))
IntOrPanic(i, parsed, radix) ==
    LET n == from_str_radix(parsed.v, radix)
    IN  IF n.ok THEN Ok(parsed.rest, IntSeg(n.v)) ELSE Panic(i)

parse_hex(i) ==
    LET t == tag(<<"0", "x">>, i)
    IN  IF t.k = "Ok" THEN take_while1(t.rest, HexDigits) ELSE t

parse_oct(i) ==
    LET t == tag(<<"0", "o">>, i)
    IN  IF t.k = "Ok" THEN take_while1(t.rest, OctDigits) ELSE t

parse_bin(i) ==
    LET t == tag(<<"0", "b">>, i)
    IN  IF t.k = "Ok" THEN take_while1(t.rest, BinDigits) ELSE t

\* lib.rs EsonSegment::Float: the decimal text handed to str::parse::<f64>
\* stands for the f64 it denotes
FloatSeg(text) == [t |-> "Float", v |-> text]

\* opt(preceded(ch('.'), digit1))
DecimalPart(i) ==
    LET d == IF i # <<>> /\ Head(i) = "." THEN take_while1(Tail(i), DecDigits) ELSE Error(i)
    IN  IF d.k = "Ok" THEN [some |-> TRUE, rest |-> d.rest, digits |-> d.v]
        ELSE [some |-> FALSE, rest |-> i]

\* opt(preceded(tag_no_case("e"), tuple((opt(alt((ch('+'), ch('-')))), digit1))))
ExpPart(i) ==
    IF i # <<>> /\ Head(i) \in {"e", "E"}
    THEN LET afterE == Tail(i)
             signed == afterE # <<>> /\ Head(afterE) \in {"+", "-"}
             d == take_while1(IF signed THEN Tail(afterE) ELSE afterE, DecDigits)
         IN  IF d.k = "Ok"
             THEN [some |-> TRUE, rest |-> d.rest, digits |-> d.v,
                   sign |-> IF signed THEN Head(afterE) ELSE "+"]
             ELSE [some |-> FALSE, rest |-> i]
    ELSE [some |-> FALSE, rest |-> i]

\* the fourth alternative: digit1, optional fraction, optional exponent
parse_decimal(i) ==
    LET int_part == take_while1(i, DecDigits)
    IN  IF int_part.k # "Ok" THEN int_part
        ELSE LET decimal_part == DecimalPart(int_part.rest)
                 exp_part == ExpPart(decimal_part.rest)
             IN  IF ~decimal_part.some /\ ~exp_part.some
                 THEN LET n == from_str_radix(int_part.v, 10)
                      IN  IF n.ok THEN Ok(exp_part.rest, IntSeg(n.v)) ELSE Panic(i)
                 ELSE Ok(exp_part.rest,
                         FloatSeg(Concat(int_part.v)
                                  \o (IF decimal_part.some
                                      THEN "." \o Concat(decimal_part.digits) ELSE "")
                                  \o (IF exp_part.some
                                      THEN "e" \o exp_part.sign \o Concat(exp_part.digits)
                                      ELSE "")))

parse_numeric(input_) ==
    IF parse_bin(input_).k = "Ok" THEN IntOrPanic(input_, parse_bin(input_), 2)
    ELSE IF parse_oct(input_).k = "Ok" THEN IntOrPanic(input_, parse_oct(input_), 8)
    ELSE IF parse_hex(input_).k = "Ok" THEN IntOrPanic(input_, parse_hex(input_), 16)
    ELSE IF parse_decimal(input_).k # "Error" THEN parse_decimal(input_)
    ELSE IF tag(Chars("Infinity"), input_).k = "Ok"
    THEN Ok(tag(Chars("Infinity"), input_).rest, FloatSeg("inf"))
    ELSE IF tag(Chars("-Infinity"), input_).k = "Ok"
    THEN Ok(tag(Chars("-Infinity"), input_).rest, FloatSeg("-inf"))
    ELSE IF tag(Chars("NaN"), input_).k = "Ok"
    THEN Ok(tag(Chars("NaN"), input_).rest, FloatSeg("NaN"))
    ELSE Error(input_)

\* a literal number scanner that knows the decimal notation alone
parse_literal_number_decimal_only(input_) == parse_decimal(input_)

\* parse_numeric with the variants rewrapped as EsonLiteralSegment
parse_literal_number(input_) == parse_numeric(input_)


(***************************************************************************)
(* expr_token.rs: ExprToken.  A token is a record whose tag is tk; x and y *)
(* are the payload of the variants that carry one.                         *)
(***************************************************************************)
Op(name) == [tk |-> name]
Val(seg) == [tk |-> "Val", x |-> seg]
Var(id) == [tk |-> "Var", x |-> id]
FnCall(id, args) == [tk |-> "FnCall", x |-> id, y |-> args]
Ref(pronoun, path) == [tk |-> "Ref", x |-> pronoun, y |-> path]
Group(chunk) == [tk |-> "Group", x |-> chunk]

\* expr.rs: ExprChunk
Primary(token) == [ck |-> "Primary", token |-> token]
PrefixOp(token, rhs) == [ck |-> "PrefixOp", token |-> token, rhs |-> rhs]
InfixOp(token, lhs, rhs) == [ck |-> "InfixOp", token |-> token, lhs |-> lhs, rhs |-> rhs]
PostfixOp(token, lhs) == [ck |-> "PostfixOp", token |-> token, lhs |-> lhs]

NoChunk == [ck |-> "absent"]
NoToken == [tk |-> "absent"]

(***************************************************************************)
(* util.rs: Iter.                                                          *)
(***************************************************************************)
\* Iter::peek: Some(&inner[cursor]) or None
peek(in, cur) == IF cur >= Len(in) THEN NoToken ELSE in[cur + 1]

\* an Iter whose take_next leaves the item in the Vec
take_next_without_remove(in, cur) == in

\* Iter::take_next: the Vec after inner.remove(cursor); unchanged on None
take_next(in, cur) ==
    IF cur >= Len(in) THEN in
    ELSE SubSeq(in, 1, cur) \o SubSeq(in, cur + 2, Len(in))

(***************************************************************************)
(* expr.rs: Parser::precedence.  A Rust match takes the first arm that     *)
(* matches, so the second `ExprToken::Or => 25` arm is never reached.      *)
(***************************************************************************)
precedence_mul_below_plus(token) ==
    IF token.tk = "Or" THEN 50
    ELSE IF token.tk = "Val" THEN 0
    ELSE IF token.tk = "Or" THEN 25
    ELSE IF token.tk = "And" THEN 30
    ELSE IF token.tk \in {"Eq", "Ne"} THEN 40
    ELSE IF token.tk \in {"Lt", "Gt", "Le", "Ge"} THEN 50
    ELSE IF token.tk \in {"Plus", "Minus"} THEN 70
    ELSE IF token.tk \in {"Mul", "Div", "Mod"} THEN 60
    ELSE IF token.tk = "Not" THEN 80
    ELSE IF token.tk \in {"FnCall", "Ref", "Group"} THEN 90
    ELSE 0

precedence(token) ==
    IF token.tk = "Or" THEN 50
    ELSE IF token.tk = "Val" THEN 0
    ELSE IF token.tk = "Or" THEN 25
    ELSE IF token.tk = "And" THEN 30
    ELSE IF token.tk \in {"Eq", "Ne"} THEN 40
    ELSE IF token.tk \in {"Lt", "Gt", "Le", "Ge"} THEN 50
    ELSE IF token.tk \in {"Plus", "Minus"} THEN 60
    ELSE IF token.tk \in {"Mul", "Div", "Mod"} THEN 70
    ELSE IF token.tk = "Not" THEN 80
    ELSE IF token.tk = "FnCall" THEN 90
    ELSE IF token.tk = "Ref" THEN 90
    ELSE IF token.tk = "Group" THEN 90
    ELSE 0

\* expr.rs:93 and :139: self.0.peek().map_or(0, Self::precedence)
peek_precedence(in, cur) ==
    IF peek(in, cur) = NoToken THEN 0 ELSE precedence(peek(in, cur))

(***************************************************************************)
(* expr.rs: Parser::parse as a machine.  One activation record per call:   *)
(* prec is the argument, pc the place the call has reached ("take": line   *)
(* 73, "loop": line 95, "prefix" / "infix": waiting for the recursive call *)
(* of a PrefixOp / InfixOp arm), lhs and precedence_r the locals, token    *)
(* the operator whose right operand is being parsed.                       *)
(***************************************************************************)
Frame(prec) ==
    [prec |-> prec, pc |-> "take", lhs |-> NoChunk, token |-> NoToken,
     precedence_r |-> 0]

Top == stack[Len(stack)]

SetTop(f) == [stack EXCEPT ![Len(stack)] = f]

\* the arms of the loop with the right operand parsed one level looser
InfixArmPrecedenceLooser(token) ==
    IF token.tk = "Or" THEN precedence(Op("Or")) - 1
    ELSE IF token.tk = "And" THEN precedence(Op("And")) - 1
    ELSE IF token.tk \in {"Eq", "Ne"} THEN precedence(Op("Eq")) - 1
    ELSE IF token.tk \in {"Lt", "Gt", "Le", "Ge"} THEN precedence(Op("Lt")) - 1
    ELSE IF token.tk \in {"Plus", "Minus"} THEN precedence(Op("Plus")) - 1
    ELSE precedence(Op("Mul")) - 1

\* the precedence the recursive call of an arm of the loop is given
\* (lines 98-133: the arm's first token stands for the whole arm)
InfixArmPrecedence(token) ==
    IF token.tk = "Or" THEN precedence(Op("Or"))
    ELSE IF token.tk = "And" THEN precedence(Op("And"))
    ELSE IF token.tk \in {"Eq", "Ne"} THEN precedence(Op("Eq"))
    ELSE IF token.tk \in {"Lt", "Gt", "Le", "Ge"} THEN precedence(Op("Lt"))
    ELSE IF token.tk \in {"Plus", "Minus"} THEN precedence(Op("Plus"))
    ELSE precedence(Op("Mul"))

InfixArms ==
    {"Or", "And", "Eq", "Ne", "Lt", "Gt", "Le", "Ge", "Plus", "Minus",
     "Mul", "Div", "Mod"}

\* Parser::new(tokens) followed by parser.parse(0)
ParserNew(ts) ==
    /\ tokens = ts
    /\ inner = ts
    /\ cursor = 0
    /\ stack = <<Frame(0)>>
    /\ ret = NoChunk
    /\ status = "running"

\* lines 73-93: take the leading token and build the first lhs
TakeLeading ==
    /\ status = "running"
    /\ Top.pc = "take"
    /\ LET token == peek(inner, cursor)
           rest == take_next(inner, cursor)
       IN  IF token = NoToken
           THEN \* take_next() is None: unwrap() panics
                /\ status' = "panicked"
                /\ UNCHANGED <<inner, stack>>
           ELSE IF token.tk \in {"Val", "FnCall", "Ref", "Group"}
           THEN /\ inner' = rest
                /\ stack' = SetTop([Top EXCEPT !.pc = "loop",
                                       !.lhs = Primary(token),
                                       !.precedence_r = peek_precedence(rest, cursor)])
                /\ UNCHANGED status
           ELSE IF token.tk \in {"Not", "Plus", "Minus"}
           THEN /\ inner' = rest
                /\ stack' = Append(SetTop([Top EXCEPT !.pc = "prefix", !.token = token]),
                                   Frame(precedence(Op(token.tk))))
                /\ UNCHANGED status
           ELSE \* panic!("Unexpected prefix token")
                /\ inner' = rest
                /\ status' = "panicked"
                /\ UNCHANGED stack
    /\ UNCHANGED <<tokens, cursor, ret>>

\* lines 95-140: one iteration of the while loop
LoopIterate ==
    /\ status = "running"
    /\ Top.pc = "loop"
    /\ Top.prec < Top.precedence_r
    /\ LET token == peek(inner, cursor)
           rest == take_next(inner, cursor)
       IN  IF token = NoToken
           THEN /\ status' = "panicked"
                /\ UNCHANGED <<inner, stack>>
           ELSE IF token.tk \in InfixArms
           THEN /\ inner' = rest
                /\ stack' = Append(SetTop([Top EXCEPT !.pc = "infix", !.token = token]),
                                   Frame(InfixArmPrecedence(token)))
                /\ UNCHANGED status
           ELSE IF token.tk = "Not"
           THEN /\ inner' = rest
                /\ stack' = Append(SetTop([Top EXCEPT !.pc = "prefix", !.token = token]),
                                   Frame(precedence(Op("Not"))))
                /\ UNCHANGED status
           ELSE IF token.tk \in {"FnCall", "Ref", "Group"}
           THEN /\ inner' = rest
                /\ stack' = SetTop([Top EXCEPT !.lhs = PostfixOp(token, Top.lhs),
                                       !.precedence_r = peek_precedence(rest, cursor)])
                /\ UNCHANGED status
           ELSE \* panic!("Unexpected infix or postfix token")
                /\ inner' = rest
                /\ status' = "panicked"
                /\ UNCHANGED stack
    /\ UNCHANGED <<tokens, cursor, ret>>

\* line 141: the loop is over, lhs goes to the caller, which builds its
\* PrefixOp / InfixOp and recomputes precedence_r (line 93 or 139)
Return ==
    /\ status = "running"
    /\ Top.pc = "loop"
    /\ ~(Top.prec < Top.precedence_r)
    /\ IF Len(stack) = 1
       THEN /\ ret' = Top.lhs
            /\ status' = "returned"
            /\ stack' = <<>>
       ELSE LET caller == stack[Len(stack) - 1]
                built == IF caller.pc = "prefix"
                         THEN PrefixOp(caller.token, Top.lhs)
                         ELSE InfixOp(caller.token, caller.lhs, Top.lhs)
            IN  /\ stack' = Append(SubSeq(stack, 1, Len(stack) - 2),
                                   [caller EXCEPT !.pc = "loop", !.lhs = built,
                                       !.token = NoToken,
                                       !.precedence_r = peek_precedence(inner, cursor)])
                /\ UNCHANGED <<ret, status>>
    /\ UNCHANGED <<tokens, inner, cursor>>


(***************************************************************************)
(* The grammar, written with the combinators of nom.  The productions call *)
(* each other, as in the source: a production that can contain itself is   *)
(* called by its name, Parse(f, i).                                        *)
(***************************************************************************)
RECURSIVE Parse(_, _), Debug(_, _), DisplayChunk(_)

\* nom multispace0 / multispace1
Multispace == {" ", "\t", "\r", "\n"}

Letters ==
    {"a", "b", "c", "d", "e", "f", "g", "h", "i", "j", "k", "l", "m", "n", "o",
     "p", "q", "r", "s", "t", "u", "v", "w", "x", "y", "z",
     "A", "B", "C", "D", "E", "F", "G", "H", "I", "J", "K", "L", "M", "N", "O",
     "P", "Q", "R", "S", "T", "U", "V", "W", "X", "Y", "Z"}

\* nom char
char(c, i) == IF i # <<>> /\ Head(i) = c THEN Ok(Tail(i), c) ELSE Error(i)

\* nom multispace0
multispace0(i) == take_while(i, Multispace)

\* a sequence of parsers (nom tuple, preceded, terminated, delimited, and
\* the ? of Rust): the rest K runs on the result r of the first parser when
\* that is Ok; any error of the first parser is the error of the sequence
Then(r, K(_)) == IF r.k = "Ok" THEN K(r) ELSE r

\* nom alt: the other alternative is the result only after a recoverable
\* error
OrElse(r, other) == IF r.k = "Error" THEN other ELSE r

\* nom map
Map(r, F(_)) == IF r.k = "Ok" THEN Ok(r.rest, F(r.v)) ELSE r

\* nom opt over a result: a recoverable error becomes Ok(None) at the input i
opt(i, r) ==
    IF r.k = "Ok" THEN Ok(r.rest, [some |-> TRUE, v |-> r.v])
    ELSE IF r.k = "Error" THEN Ok(i, [some |-> FALSE])
    ELSE r

\* the mutation of cut that leaves the error recoverable
cut_recoverable(r) == r

\* nom cut: a recoverable error becomes a failure
cut(r) == IF r.k = "Error" THEN Failure(r.rest) ELSE r

\* one round of nom many0 and fold_many0: after an Ok round the repetition
\* goes on, a recoverable error ends it with what was gathered, a failure
\* is returned
many0_step(r, Continue(_), gathered) ==
    IF r.k = "Ok" THEN Continue(r)
    ELSE IF r.k = "Error" THEN gathered
    ELSE r

\* delimited(multispace0, tag(t), multispace0)
padded_tag(t, i) ==
    Then(tag(t, multispace0(i).rest), LAMBDA m : Ok(multispace0(m.rest).rest, t))

(***************************************************************************)
(* expr.rs: legal_id                                                       *)
(***************************************************************************)
legal_id(input_) ==
    IF input_ # <<>> /\ Head(input_) \in Letters \cup {"_"}
    THEN LET n == 1 + SpanLen(Tail(input_), Letters \cup DecDigits \cup {"_"})
         IN  Ok(Drop(input_, n), SubSeq(input_, 1, n))
    ELSE Error(input_)

(***************************************************************************)
(* comments.rs and lib.rs: the skipper                                     *)
(***************************************************************************)
RECURSIVE IndexOf(_, _)
\* the number of characters before the first c in i; Len(i) when there is none
IndexOf(i, c) == IF i = <<>> \/ Head(i) = c THEN 0 ELSE 1 + IndexOf(Tail(i), c)

\* nom take_until("\n")
take_until_newline(i) ==
    LET n == IndexOf(i, "\n")
    IN  IF n = Len(i) THEN Error(i) ELSE Ok(Drop(i, n), SubSeq(i, 1, n))

\* comments.rs: sp, the whitespace run after the //
comment_sp(input_) == take_while(input_, {" ", "\t", "\r", "\n"})

\* comments.rs: comment
comment(input_) ==
    Then(tag(<<"/", "/">>, multispace0(input_).rest), LAMBDA head :
    Then(take_until_newline(comment_sp(head.rest).rest), LAMBDA body :
    Ok(Tail(body.rest), body.v)))

RECURSIVE sp(_)
\* lib.rs: sp = many0(alt((multispace1, comment)))
sp(input_) ==
    many0_step(OrElse(take_while1(input_, Multispace), Parse("comment", input_)),
               LAMBDA skipped : sp(skipped.rest),
               Ok(input_, ""))

(***************************************************************************)
(* string.rs                                                               *)
(***************************************************************************)
\* the printable ASCII characters from U+0020 on, in code point order
Ascii ==
    Chars(" !") \o <<"\"">> \o Chars("#$%&'()*+,-./0123456789:;<=>?@")
    \o Chars("ABCDEFGHIJKLMNOPQRSTUVWXYZ[") \o <<"\\">>
    \o Chars("]^_") \o <<"<U+96>">> \o Chars("abcdefghijklmnopqrstuvwxyz{|}~")

\* std::char::from_u32: None for a surrogate or a value above U+10FFFF; a
\* character outside printable ASCII is written <U+n>
from_u32(n) ==
    IF (n >= 55296 /\ n <= 57343) \/ n > 1114111 THEN [some |-> FALSE]
    ELSE IF n >= 32 /\ n <= 126 THEN [some |-> TRUE, v |-> Ascii[n - 31]]
    ELSE IF n = 10 THEN [some |-> TRUE, v |-> "\n"]
    ELSE IF n = 9 THEN [some |-> TRUE, v |-> "\t"]
    ELSE IF n = 13 THEN [some |-> TRUE, v |-> "\r"]
    ELSE [some |-> TRUE, v |-> "<U+" \o ToString(n) \o ">"]

RECURSIVE HexValue(_, _)
\* u32::from_str_radix(hex, 16) on at most six digits
HexValue(acc, s) ==
    IF s = <<>> THEN acc ELSE HexValue(acc * 16 + DigitValue(Head(s)), Tail(s))

\* nom take_while_m_n(m, n, is_ascii_hexdigit)
take_hex_m_n(m, n, i) ==
    LET run == SpanLen(i, HexDigits)
        len == IF run > n THEN n ELSE run
    IN  IF len < m THEN Error(i) ELSE Ok(Drop(i, len), SubSeq(i, 1, len))

\* nom map_opt: None is a recoverable error at the input
map_opt(input_, r, option) == IF option.some THEN Ok(r.rest, option.v) ELSE Error(input_)

\* parse_unicode: u{1..6 hex} or u and exactly 4 hex, as a char
parse_unicode(input_) ==
    Then(char("u", input_), LAMBDA u :
    Then(OrElse(Then(char("{", u.rest), LAMBDA open :
                Then(take_hex_m_n(1, 6, open.rest), LAMBDA digits :
                Then(char("}", digits.rest), LAMBDA close :
                Ok(close.rest, digits.v)))),
                take_hex_m_n(4, 4, u.rest)),
         LAMBDA hex : map_opt(input_, hex, from_u32(HexValue(0, hex.v)))))

\* the one-character escapes of parse_escaped_char: the character each
\* stands for; \b and \f are written <U+8> and <U+12>
SimpleEscape(c) ==
    CASE c = "n" -> "\n" [] c = "r" -> "\r" [] c = "t" -> "\t"
      [] c = "b" -> "<U+8>" [] c = "f" -> "<U+12>"
      [] c = "\\" -> "\\" [] c = "/" -> "/" [] c = "\"" -> "\""

\* the alternatives of parse_escaped_char after parse_unicode
simple_escape(i) ==
    IF i # <<>> /\ Head(i) \in {"n", "r", "t", "b", "f", "\\", "/", "\""}
    THEN Ok(Tail(i), SimpleEscape(Head(i)))
    ELSE Error(i)

parse_escaped_char(input_) ==
    Then(char("\\", input_), LAMBDA bs :
    OrElse(Parse("parse_unicode", bs.rest), simple_escape(bs.rest)))

parse_escaped_whitespace(input_) ==
    Then(char("\\", input_), LAMBDA bs : take_while1(bs.rest, Multispace))

RECURSIVE SpanNot(_, _)
\* the length of the longest prefix of i with no character of S
SpanNot(i, S) ==
    IF i # <<>> /\ Head(i) \notin S THEN 1 + SpanNot(Tail(i), S) ELSE 0

\* verify(is_not(stop), |s| !s.is_empty())
parse_literal(stop, i) ==
    LET n == SpanNot(i, stop)
    IN  IF n = 0 THEN Error(i) ELSE Ok(Drop(i, n), Concat(SubSeq(i, 1, n)))

\* the mutation of EscapedWS that keeps the white space
EscapedWSKept(whitespace) == Concat(whitespace)

\* StringFragment::EscapedWS: nothing is appended
EscapedWS(whitespace) == ""
RECURSIVE NormalFragments(_, _)
\* the fold_many0 of parse_normal_string: literal runs and escaped
\* characters are appended, escaped whitespace is dropped
NormalFragments(string, i) ==
    many0_step(OrElse(parse_literal({"\"", "\\"}, i),
               OrElse(Parse("parse_escaped_char", i),
                      Map(Parse("parse_escaped_whitespace", i), EscapedWS))),
               LAMBDA fragment : NormalFragments(string \o fragment.v, fragment.rest),
               Ok(i, string))

parse_normal_string(input_) == NormalFragments("", input_)

\* the code point of a character of the model: a character outside printable
\* ASCII is written <U+n>, n in decimal
CodePoint(c) ==
    IF Len(c) = 1 THEN 0
    ELSE LET digits == SubSeq(Chars(c), 4, Len(c) - 1)
             DecValue[n \in 0..Len(digits)] ==
                 IF n = 0 THEN 0 ELSE DecValue[n - 1] * 10 + DigitValue(digits[n])
         IN  DecValue[Len(digits)]

\* char::len_utf8
ByteLen(c) ==
    IF CodePoint(c) < 128 THEN 1
    ELSE IF CodePoint(c) < 2048 THEN 2
    ELSE IF CodePoint(c) < 65536 THEN 3
    ELSE 4

RECURSIVE CharsWithin(_, _)
\* the number of leading characters of cs that take exactly n bytes, or -1
\* when n bytes end inside a character or beyond the text
CharsWithin(cs, n) ==
    IF n = 0 THEN 0
    ELSE IF cs = <<>> \/ ByteLen(Head(cs)) > n THEN -1
    ELSE LET more == CharsWithin(Tail(cs), n - ByteLen(Head(cs)))
         IN  IF more < 0 THEN -1 ELSE 1 + more

\* &input[from..to] with byte offsets: the characters, or a panic when an
\* offset is no character boundary
ByteSlice(cs, from, to) ==
    LET a == CharsWithin(cs, from)
        b == CharsWithin(cs, to)
    IN  IF a < 0 \/ b < 0 THEN [ok |-> FALSE]
        ELSE [ok |-> TRUE, v |-> SubSeq(cs, a + 1, b)]

RECURSIVE ManyTillClosing(_, _, _)
\* many_till(take(1u8), pair(tag("\""), count(tag("#"), hash_count))): the
\* number of characters taken before the closing fence
ManyTillClosing(i, closing, taken) ==
    IF StartsWith(i, closing) THEN Ok(Drop(i, Len(closing)), taken)
    ELSE IF i = <<>> THEN Error(i)
    ELSE ManyTillClosing(Tail(i), closing, taken + 1)

\* &input[offset..offset + length]: the slice on character boundaries, or
\* the panic of str indexing
slice_or_panic(input_, rest, slice) ==
    IF slice.ok THEN Ok(rest, slice.v) ELSE Panic(input_)

parse_raw_str(input_) ==
    LET hash_count == SpanLen(input_, {"#"})
    IN  Then(char("\"", Drop(input_, hash_count)), LAMBDA quote :
        Then(ManyTillClosing(quote.rest, <<"\"">> \o Rep("#", hash_count), 0), LAMBDA till :
        slice_or_panic(input_, till.rest,
                       ByteSlice(input_, hash_count + 1, hash_count + 1 + till.v))))

RECURSIVE FormatFragments(_, _)
\* the fold_many0 of parse_format_string over the raw content
FormatFragments(string, i) ==
    many0_step(OrElse(Parse("parse_escaped_char", i),
               OrElse(Map(Parse("parse_escaped_whitespace", i), EscapedWS),
               OrElse(Map(Parse("parse_expr_token_chunk", i), DisplayChunk),
                      parse_literal({"\\", "$"}, i)))),
               LAMBDA fragment : FormatFragments(string \o fragment.v, fragment.rest),
               Ok(i, string))

\* complete(parse_string)(raw_str)?: what the fold leaves unread is dropped
parse_format_string(input_) ==
    Then(Parse("parse_raw_str", input_), LAMBDA raw :
    Then(FormatFragments("", raw.v), LAMBDA folded :
    Ok(raw.rest, folded.v)))

\* the first alternative of parse_string and parse_literal_string
quoted_string(input_) ==
    Then(char("\"", input_), LAMBDA open :
    Then(Parse("parse_normal_string", open.rest), LAMBDA body :
    Then(char("\"", body.rest), LAMBDA close :
    Ok(close.rest, body.v))))

\* the second alternative: map(preceded(ch('r'), parse_raw_str), String::from)
raw_string(input_) ==
    Then(char("r", input_), LAMBDA r : Map(Parse("parse_raw_str", r.rest), Concat))

parse_string(input_) ==
    OrElse(Parse("quoted_string", input_),
    OrElse(Parse("raw_string", input_),
           Then(char("f", input_), LAMBDA f : Parse("parse_format_string", f.rest))))

parse_literal_string(input_) ==
    OrElse(Parse("quoted_string", input_), Parse("raw_string", input_))

(***************************************************************************)
(* lib.rs: EsonSegment and EsonLiteralSegment; dict.rs: Key;               *)
(* annotation.rs: Annotation; expr_token.rs: RefIndex                      *)
(***************************************************************************)
NullSeg == [t |-> "Null"]
StrSeg(string) == [t |-> "Str", v |-> string]
BooleanSeg(b) == [t |-> "Boolean", v |-> b]
ListSeg(items) == [t |-> "List", v |-> items]
DictSeg(map) == [t |-> "Dict", v |-> map]
ExprSeg(chunk) == [t |-> "Expr", v |-> chunk]

None == [some |-> FALSE]
Some(v) == [some |-> TRUE, v |-> v]

Key(name, annotations) == [name |-> name, annotation |-> annotations]
Annotation(name, args) == [name |-> name, value |-> args]

RefIndexInt(n) == [t |-> "Int", v |-> n]
RefIndexStr(string) == [t |-> "Str", v |-> string]

\* the mutation of Key_eq that a derived PartialEq would give
Key_eq_derived(a, b) == a = b

\* dict.rs impl PartialEq for Key: the names alone are compared
Key_eq(a, b) == a.name = b.name

\* HashMap::new: a map is the set of its entries, a key and its value each
EmptyMap == {}

\* HashMap::insert: a key equal to a stored one keeps the stored key and
\* replaces its value
Insert(map, key_, val) ==
    IF \E e \in map : Key_eq(e.key, key_)
    THEN {IF Key_eq(e.key, key_) THEN [key |-> e.key, value |-> val] ELSE e : e \in map}
    ELSE map \cup {[key |-> key_, value |-> val]}

RECURSIVE Collect(_, _)
\* tuple_vec.into_iter().collect(): the pairs inserted in order
Collect(map, pairs) ==
    IF pairs = <<>> THEN map
    ELSE Collect(Insert(map, Head(pairs)[1], Head(pairs)[2]), Tail(pairs))

(***************************************************************************)
(* boolean.rs, null.rs                                                     *)
(***************************************************************************)
parse_boolean(input_) ==
    IF StartsWith(input_, Chars("true")) THEN Ok(Drop(input_, 4), BooleanSeg(TRUE))
    ELSE IF StartsWith(input_, Chars("false")) THEN Ok(Drop(input_, 5), BooleanSeg(FALSE))
    ELSE Error(input_)

parse_literal_boolean(input_) == parse_boolean(input_)

parse_null(input_) ==
    IF StartsWith(input_, Chars("null")) THEN Ok(Drop(input_, 4), NullSeg) ELSE Error(input_)

parse_literal_null(input_) == parse_null(input_)

(***************************************************************************)
(* lib.rs: eson and eson_literal                                           *)
(***************************************************************************)
eson(i) ==
    Then(sp(i), LAMBDA s :
    OrElse(Map(Parse("parse_string", s.rest), StrSeg),
    OrElse(Parse("parse_numeric", s.rest),
    OrElse(Parse("parse_boolean", s.rest),
    OrElse(Parse("parse_null", s.rest),
    OrElse(Map(Parse("parse_lst", s.rest), ListSeg),
    OrElse(Map(Parse("parse_dict", s.rest), DictSeg),
           Map(Parse("parse_expr_token_chunk", s.rest), ExprSeg))))))))

\* the mutation of eson_literal that reads every value of eson
eson_literal_with_expressions(i) == Parse("eson", i)

eson_literal(i) ==
    Then(sp(i), LAMBDA s :
    OrElse(Parse("parse_literal_number", s.rest),
    OrElse(Parse("parse_literal_boolean", s.rest),
    OrElse(Parse("parse_literal_null", s.rest),
    OrElse(Map(Parse("parse_literal_string", s.rest), StrSeg),
    OrElse(Map(Parse("parse_literal_lst", s.rest), ListSeg),
           Map(Parse("parse_literal_dict", s.rest), DictSeg)))))))

(***************************************************************************)
(* nom separated_list0, with the element and the separator named           *)
(***************************************************************************)
\* the separators: preceded(sp, char(',')) of lists and dicts, and
\* delimited(multispace0, tag(","), multispace0) of arguments
Sep(sep, i) ==
    IF sep = "sp_comma" THEN Then(sp(i), LAMBDA s : char(",", s.rest))
    ELSE padded_tag(<<",">>, i)

RECURSIVE SeparatedMore(_, _, _, _)
\* the loop of separated_list0: a separator then an element; an Error of
\* either ends the list before the separator, and a separator that reads
\* nothing is the error of the infinite loop check
SeparatedMore(sep, f, i, res) ==
    many0_step(Sep(sep, i),
               LAMBDA s :
                   IF Len(s.rest) = Len(i) THEN Error(s.rest)
                   ELSE many0_step(Parse(f, s.rest),
                                   LAMBDA o : SeparatedMore(sep, f, o.rest, Append(res, o.v)),
                                   Ok(i, res)),
               Ok(i, res))

separated_list0(sep, f, i) ==
    many0_step(Parse(f, i),
               LAMBDA o : SeparatedMore(sep, f, o.rest, <<o.v>>),
               Ok(i, <<>>))

\* tuple((sp, opt(char(',')), sp, char(close)))
closing_tail(close, i) ==
    Then(sp(i), LAMBDA a :
    Then(opt(a.rest, char(",", a.rest)), LAMBDA comma :
    Then(sp(comma.rest), LAMBDA b :
    char(close, b.rest))))

(***************************************************************************)
(* list.rs                                                                 *)
(***************************************************************************)
\* preceded(char('['), cut(terminated(separated_list0(.., f), tail)))
bracketed_list(f, i) ==
    Then(char("[", i), LAMBDA open :
    cut(Then(separated_list0("sp_comma", f, open.rest), LAMBDA items :
        Then(closing_tail("]", items.rest), LAMBDA tail :
        Ok(tail.rest, items.v)))))

parse_lst(i) == bracketed_list("eson", i)

parse_literal_lst(i) == bracketed_list("eson_literal", i)

(***************************************************************************)
(* annotation.rs                                                           *)
(***************************************************************************)
\* the mutation of sp_without_br0 that also skips line breaks
sp_with_br0(input_) == take_while(input_, Multispace)

sp_without_br0(input_) == take_while(input_, {" ", "\t", "\r"})

\* preceded(delimited(sp_without_br0, tag("("), sp_without_br0),
\*           delimited(multispace0, separated_list0(.., eson_literal),
\*                     delimited(multispace0, tag(")"), sp_without_br0)))
annotation_value(i) ==
    Then(char("(", sp_without_br0(i).rest), LAMBDA open :
    Then(separated_list0("ms_comma", "eson_literal",
                         multispace0(sp_without_br0(open.rest).rest).rest), LAMBDA args :
    Then(char(")", multispace0(args.rest).rest), LAMBDA close :
    Ok(sp_without_br0(close.rest).rest, args.v))))

annotation(input_) ==
    Then(char("@", input_), LAMBDA at :
    Then(legal_id(at.rest), LAMBDA name :
    Then(sp_without_br0(name.rest), LAMBDA remaining :
    Then(opt(remaining.rest, Parse("annotation_value", remaining.rest)), LAMBDA args :
    Ok(args.rest, Annotation(Concat(name.v), args.v))))))

RECURSIVE ManyAnnotations(_, _)
\* many0(delimited(sp, annotation, sp))
ManyAnnotations(i, acc) ==
    many0_step(Then(sp(i), LAMBDA s : Parse("annotation", s.rest)),
               LAMBDA a : ManyAnnotations(sp(a.rest).rest, Append(acc, a.v)),
               Ok(i, acc))

parse_annotations(input_) == ManyAnnotations(multispace0(input_).rest, <<>>)

(***************************************************************************)
(* dict.rs                                                                 *)
(***************************************************************************)
key(i) ==
    Then(opt(i, Parse("parse_annotations", i)), LAMBDA annotations :
    Then(sp(annotations.rest), LAMBDA s :
    Then(OrElse(Parse("parse_string", s.rest), Map(legal_id(s.rest), Concat)), LAMBDA name :
    Ok(name.rest, Key(name.v, annotations.v)))))

\* separated_pair(key, cut(preceded(sp, char(':'))), f)
key_then_value(f, i) ==
    Then(Parse("key", i), LAMBDA k :
    Then(cut(Then(sp(k.rest), LAMBDA s : char(":", s.rest))), LAMBDA colon :
    Then(Parse(f, colon.rest), LAMBDA val :
    Ok(val.rest, <<k.v, val.v>>))))

key_value(i) == key_then_value("eson", i)

key_literal_value(i) == key_then_value("eson_literal", i)

\* preceded(preceded(sp, char('{')),
\*           cut(terminated(map(separated_list0(.., f), collect), tail)))
braced_dict(f, i) ==
    Then(Then(sp(i), LAMBDA s : char("{", s.rest)), LAMBDA open :
    cut(Then(separated_list0("sp_comma", f, open.rest), LAMBDA pairs :
        Then(closing_tail("}", pairs.rest), LAMBDA tail :
        Ok(tail.rest, Collect(EmptyMap, pairs.v))))))

parse_dict(i) == braced_dict("key_value", i)

parse_literal_dict(i) == braced_dict("key_literal_value", i)

(***************************************************************************)
(* expr_token.rs: the tokenizer                                            *)
(***************************************************************************)
var(input_) ==
    Then(legal_id(multispace0(input_).rest), LAMBDA id :
    Ok(multispace0(id.rest).rest, Var(Concat(id.v))))

\* the mutation of fn_call that reads one argument chunk and no separator
fn_call_single_argument(input_) ==
    Then(legal_id(input_), LAMBDA id :
    Then(padded_tag(<<"(">>, id.rest), LAMBDA open :
    Then(many0_step(Parse("expr_token_set", multispace0(open.rest).rest),
                    LAMBDA chunk : Ok(chunk.rest, <<chunk.v>>),
                    Ok(multispace0(open.rest).rest, <<>>)), LAMBDA args :
    Then(padded_tag(<<")">>, args.rest), LAMBDA close :
    Ok(multispace0(close.rest).rest, FnCall(Concat(id.v), args.v))))))

fn_call(input_) ==
    Then(legal_id(input_), LAMBDA id :
    Then(padded_tag(<<"(">>, id.rest), LAMBDA open :
    Then(separated_list0("ms_comma", "expr_token_set",
                         multispace0(open.rest).rest), LAMBDA args :
    Then(padded_tag(<<")">>, args.rest), LAMBDA close :
    Ok(multispace0(close.rest).rest, FnCall(Concat(id.v), args.v))))))

value(input_) == Map(Parse("eson", input_), Val)

RECURSIVE ParseI16(_, _)
\* str::parse::<i16> on a run of digits: the value, or 32768 for any value
\* above i16::MAX
ParseI16(acc, digits) ==
    IF digits = <<>> THEN acc
    ELSE LET next == acc * 10 + DigitValue(Head(digits))
         IN  ParseI16(IF next > 32767 THEN 32768 ELSE next, Tail(digits))

\* map_res(digit1, |s| s.parse::<i16>())
parse_i16(i) ==
    Then(take_while1(i, DecDigits), LAMBDA digits :
    IF ParseI16(0, digits.v) > 32767 THEN Error(i)
    ELSE Ok(digits.rest, ParseI16(0, digits.v)))

\* the three alternatives of ref_element
ref_element(i) ==
    OrElse(Then(padded_tag(<<".">>, i), LAMBDA dot :
           Then(legal_id(dot.rest), LAMBDA id :
           Ok(multispace0(id.rest).rest, RefIndexStr(Concat(id.v))))),
    OrElse(Then(padded_tag(<<"[">>, i), LAMBDA open :
           Then(Parse("parse_literal_string", open.rest), LAMBDA str :
           Then(padded_tag(<<"]">>, str.rest), LAMBDA close :
           Ok(close.rest, RefIndexStr(str.v))))),
           Then(padded_tag(<<"[">>, i), LAMBDA open :
           Then(parse_i16(open.rest), LAMBDA n :
           Then(padded_tag(<<"]">>, n.rest), LAMBDA close :
           Ok(close.rest, RefIndexInt(n.v)))))))

RECURSIVE ManyRefElementsReversed(_, _)
\* the mutation of ManyRefElements that puts each new index first
ManyRefElementsReversed(i, acc) ==
    many0_step(Parse("ref_element", multispace0(i).rest),
               LAMBDA e : ManyRefElementsReversed(multispace0(e.rest).rest, <<e.v>> \o acc),
               Ok(i, acc))

RECURSIVE ManyRefElements(_, _)
\* many0(delimited(multispace0, ref_element, multispace0))
ManyRefElements(i, acc) ==
    many0_step(Parse("ref_element", multispace0(i).rest),
               LAMBDA e : ManyRefElements(multispace0(e.rest).rest, Append(acc, e.v)),
               Ok(i, acc))

\* the head of reference: self, super or $
ref_head(input_) ==
    IF StartsWith(input_, Chars("self")) THEN Ok(Drop(input_, 4), "Curr")
    ELSE IF StartsWith(input_, Chars("super")) THEN Ok(Drop(input_, 5), "Super")
    ELSE IF StartsWith(input_, <<"$">>) THEN Ok(Drop(input_, 1), "Root")
    ELSE Error(input_)

reference(input_) ==
    Then(ref_head(input_), LAMBDA head :
    Then(ManyRefElements(head.rest, <<>>), LAMBDA elements :
    Ok(elements.rest, Ref(head.v, elements.v))))

\* the alternatives of operator in order, each with the token its text maps
\* to; "^" has no arm and reaches unreachable!()
Operators ==
    <<<<"==", "Eq">>, <<"!=", "Ne">>, <<"<=", "Le">>, <<">=", "Ge">>,
      <<"&&", "And">>, <<"||", "Or">>, <<"!", "Not">>, <<">", "Gt">>,
      <<"<", "Lt">>, <<"+", "Plus">>, <<"-", "Minus">>, <<"*", "Mul">>,
      <<"/", "Div">>, <<"%", "Mod">>, <<"^", "unreachable">>, <<"-", "Minus">>>>

RECURSIVE OperatorFrom(_, _)
OperatorFrom(n, i) ==
    IF n > Len(Operators) THEN Error(i)
    ELSE LET m == padded_tag(Chars(Operators[n][1]), i)
         IN  IF m.k # "Ok" THEN OperatorFrom(n + 1, i)
             ELSE IF Operators[n][2] = "unreachable" THEN Panic(i)
             ELSE Ok(m.rest, Op(Operators[n][2]))

operator(input_) == OperatorFrom(1, input_)

\* the mutation of expr_token that tries var before fn_call
expr_token_var_first(i) ==
    OrElse(Parse("var", i),
    OrElse(Parse("fn_call", i),
    OrElse(Parse("reference", i),
    OrElse(Parse("value", i),
           Parse("operator", i)))))

\* alt((fn_call, reference, value, var, operator))
expr_token(i) ==
    OrElse(Parse("fn_call", i),
    OrElse(Parse("reference", i),
    OrElse(Parse("value", i),
    OrElse(Parse("var", i),
           Parse("operator", i)))))

RECURSIVE ManyTokens(_, _)
\* the loop of many1 after the first token
ManyTokens(i, acc) ==
    many0_step(Parse("expr_token", i),
               LAMBDA tok : ManyTokens(tok.rest, Append(acc, tok.v)),
               Ok(i, acc))

expr_token_set(input_) ==
    Then(Parse("expr_token", input_), LAMBDA first : ManyTokens(first.rest, <<first.v>>))

parse_expr_token_chunk(input_) ==
    Then(tag(<<"$", "{">>, input_), LAMBDA open :
    Then(Parse("expr_token_set", multispace0(open.rest).rest), LAMBDA chunk :
    Then(char("}", multispace0(chunk.rest).rest), LAMBDA close :
    Ok(close.rest, chunk.v))))

(***************************************************************************)
(* The productions by name.                                                *)
(***************************************************************************)
Parse(f, i) ==
    CASE f = "eson" -> eson(i)
      [] f = "eson_literal" -> eson_literal(i)
      [] f = "parse_string" -> parse_string(i)
      [] f = "parse_lst" -> parse_lst(i)
      [] f = "parse_literal_lst" -> parse_literal_lst(i)
      [] f = "parse_dict" -> parse_dict(i)
      [] f = "parse_literal_dict" -> parse_literal_dict(i)
      [] f = "key_value" -> key_value(i)
      [] f = "key_literal_value" -> key_literal_value(i)
      [] f = "expr_token_set" -> expr_token_set(i)
      [] f = "parse_expr_token_chunk" -> parse_expr_token_chunk(i)
      [] f = "parse_literal_string" -> parse_literal_string(i)
      [] f = "parse_format_string" -> parse_format_string(i)
      [] f = "quoted_string" -> quoted_string(i)
      [] f = "raw_string" -> raw_string(i)
      [] f = "parse_raw_str" -> parse_raw_str(i)
      [] f = "parse_normal_string" -> parse_normal_string(i)
      [] f = "parse_numeric" -> parse_numeric(i)
      [] f = "parse_literal_number" -> parse_literal_number(i)
      [] f = "parse_boolean" -> parse_boolean(i)
      [] f = "parse_literal_boolean" -> parse_literal_boolean(i)
      [] f = "parse_null" -> parse_null(i)
      [] f = "parse_literal_null" -> parse_literal_null(i)
      [] f = "key" -> key(i)
      [] f = "parse_annotations" -> parse_annotations(i)
      [] f = "annotation" -> annotation(i)
      [] f = "annotation_value" -> annotation_value(i)
      [] f = "expr_token" -> expr_token(i)
      [] f = "fn_call" -> fn_call(i)
      [] f = "value" -> value(i)
      [] f = "reference" -> reference(i)
      [] f = "ref_element" -> ref_element(i)
      [] f = "var" -> var(i)
      [] f = "operator" -> operator(i)
      [] f = "comment" -> comment(i)
      [] f = "parse_escaped_char" -> parse_escaped_char(i)
      [] f = "parse_escaped_whitespace" -> parse_escaped_whitespace(i)
      [] f = "parse_unicode" -> parse_unicode(i)

(***************************************************************************)
(* expr_token.rs: Display of tokens and chunks, and the derived Debug of   *)
(* the values they print                                                   *)
(***************************************************************************)
LowerHex == Chars("0123456789abcdef")

\* char::escape_debug inside a str: quote, backslash and the named control
\* characters are escaped, other control characters print as \u{hex}
EscapeDebug(c) ==
    IF c = "\"" THEN "\\\""
    ELSE IF c = "\\" THEN "\\\\"
    ELSE IF c = "\n" THEN "\\n"
    ELSE IF c = "\r" THEN "\\r"
    ELSE IF c = "\t" THEN "\\t"
    ELSE IF Len(c) > 1 /\ CodePoint(c) < 16
    THEN "\\u{" \o LowerHex[CodePoint(c) + 1] \o "}"
    ELSE IF Len(c) > 1 /\ CodePoint(c) < 32
    THEN "\\u{1" \o LowerHex[CodePoint(c) - 15] \o "}"
    ELSE c

RECURSIVE SplitChars(_)
\* the characters of a String of the model: <U+n> is one character
SplitChars(cs) ==
    IF cs = <<>> THEN <<>>
    ELSE IF StartsWith(cs, Chars("<U+")) /\ IndexOf(cs, ">") < Len(cs)
    THEN <<Concat(SubSeq(cs, 1, IndexOf(cs, ">") + 1))>>
         \o SplitChars(Drop(cs, IndexOf(cs, ">") + 1))
    ELSE <<Head(cs)>> \o SplitChars(Tail(cs))

RECURSIVE EscapeAll(_)
EscapeAll(cs) == IF cs = <<>> THEN "" ELSE EscapeDebug(Head(cs)) \o EscapeAll(Tail(cs))

\* <str as Debug>::fmt
DebugStr(string) == "\"" \o EscapeAll(SplitChars(Chars(string))) \o "\""

RECURSIVE DecimalOf(_)
\* <i64 as Display>::fmt of a value that is not negative
DecimalOf(limbs) ==
    LET c2 == (limbs[1] % 10) * LimbBase + limbs[2]
        c3 == (c2 % 10) * LimbBase + limbs[3]
        quotient == <<limbs[1] \div 10, c2 \div 10, c3 \div 10>>
    IN  IF quotient = <<0, 0, 0>> THEN ToString(c3 % 10)
        ELSE DecimalOf(quotient) \o ToString(c3 % 10)

RECURSIVE StripLeft(_, _)
StripLeft(cs, c) == IF Len(cs) > 1 /\ Head(cs) = c THEN StripLeft(Tail(cs), c) ELSE cs

RECURSIVE StripRight(_, _)
StripRight(cs, c) ==
    IF Len(cs) > 1 /\ cs[Len(cs)] = c THEN StripRight(SubSeq(cs, 1, Len(cs) - 1), c) ELSE cs

\* <f64 as Debug>::fmt of the value a decimal text denotes: exact for a text
\* with a fraction, no exponent and at most 15 digits; any other text is
\* shown between angle brackets
DebugF64(text) ==
    LET cs == Chars(text)
        dot == IndexOf(cs, ".")
    IN  IF text \in {"inf", "-inf", "NaN"} THEN text
        ELSE IF dot < Len(cs) /\ IndexOf(cs, "e") = Len(cs) /\ Len(cs) <= 16
        THEN Concat(StripLeft(SubSeq(cs, 1, dot), "0")) \o "."
             \o Concat(StripRight(Drop(cs, dot + 1), "0"))
        ELSE "<" \o text \o ">"

\* <Option<Vec<_>> as Debug>::fmt
DebugOption(kind, o) == IF o.some THEN "Some(" \o Debug("vec_" \o kind, o.v) \o ")" ELSE "None"

\* #[derive(Debug)] of Annotation
DebugAnnotation(a) ==
    "Annotation { name: " \o DebugStr(a.name) \o ", value: "
    \o DebugOption("segment", a.value) \o " }"

\* #[derive(Debug)] of Key
DebugKey(k) ==
    "Key { name: " \o DebugStr(k.name) \o ", annotation: "
    \o DebugOption("annotation", k.annotation) \o " }"

RECURSIVE DebugEntries(_)
\* the entries of a HashMap in one iteration order
DebugEntries(map) ==
    IF map = {} THEN ""
    ELSE LET e == CHOOSE entry_ \in map : TRUE
         IN  DebugKey(e.key) \o ": " \o Debug("segment", e.value)
             \o (IF map = {e} THEN "" ELSE ", " \o DebugEntries(map \ {e}))

\* #[derive(Debug)] of RefIndex
DebugRefIndex(e) ==
    IF e.t = "Int" THEN "Int(" \o ToString(e.v) \o ")" ELSE "Str(" \o DebugStr(e.v) \o ")"

\* #[derive(Debug)] of ExprTokenChunk
DebugChunk(chunk) == "ExprTokenChunk(" \o Debug("vec_token", chunk) \o ")"

\* #[derive(Debug)] of EsonSegment and EsonLiteralSegment
DebugSeg(seg) ==
    CASE seg.t = "Null" -> "Null"
      [] seg.t = "Str" -> "Str(" \o DebugStr(seg.v) \o ")"
      [] seg.t = "Boolean" -> "Boolean(" \o (IF seg.v THEN "true" ELSE "false") \o ")"
      [] seg.t = "Int" -> "Int(" \o DecimalOf(seg.v) \o ")"
      [] seg.t = "Float" -> "Float(" \o DebugF64(seg.v) \o ")"
      [] seg.t = "List" -> "List(" \o Debug("vec_segment", seg.v) \o ")"
      [] seg.t = "Dict" -> "Dict({" \o DebugEntries(seg.v) \o "})"
      [] seg.t = "Expr" -> "Expr(" \o Debug("chunk", seg.v) \o ")"

\* #[derive(Debug)] of ExprToken
DebugToken(token) ==
    CASE token.tk = "Val" -> "Val(" \o Debug("segment", token.x) \o ")"
      [] token.tk = "Var" -> "Var(" \o DebugStr(token.x) \o ")"
      [] token.tk = "FnCall" ->
            "FnCall(" \o DebugStr(token.x) \o ", " \o Debug("vec_chunk", token.y) \o ")"
      [] token.tk = "Ref" ->
            "Ref(" \o token.x \o "(" \o Debug("vec_index", token.y) \o "))"
      [] token.tk = "Group" -> "Group(" \o Debug("chunk", token.x) \o ")"
      [] OTHER -> token.tk

RECURSIVE DebugJoin(_, _)
\* the elements of a Vec as Debug prints them, separated by ", "
DebugJoin(kind, items) ==
    IF items = <<>> THEN ""
    ELSE Debug(kind, Head(items))
         \o (IF Len(items) = 1 THEN "" ELSE ", " \o DebugJoin(kind, Tail(items)))

\* the Debug implementations by the kind of value
Debug(kind, x) ==
    CASE kind = "segment" -> DebugSeg(x)
      [] kind = "token" -> DebugToken(x)
      [] kind = "chunk" -> DebugChunk(x)
      [] kind = "index" -> DebugRefIndex(x)
      [] kind = "annotation" -> DebugAnnotation(x)
      [] kind = "vec_segment" -> "[" \o DebugJoin("segment", x) \o "]"
      [] kind = "vec_token" -> "[" \o DebugJoin("token", x) \o "]"
      [] kind = "vec_chunk" -> "[" \o DebugJoin("chunk", x) \o "]"
      [] kind = "vec_index" -> "[" \o DebugJoin("index", x) \o "]"
      [] kind = "vec_annotation" -> "[" \o DebugJoin("annotation", x) \o "]"

\* impl Display for ExprToken
DisplayToken(token) ==
    CASE token.tk = "Group" -> "Group"
      [] token.tk = "Val" -> "Val(" \o Debug("segment", token.x) \o ")"
      [] token.tk = "FnCall" ->
            "FnCall(" \o token.x \o ", " \o Debug("vec_chunk", token.y) \o ")"
      [] token.tk = "Var" -> "Var(" \o token.x \o ")"
      [] token.tk = "Ref" ->
            "Ref(" \o token.x \o "(" \o Debug("vec_index", token.y) \o "))"
      [] OTHER -> token.tk

\* impl Display for ExprTokenChunk: the tokens' Display, concatenated
DisplayChunk(chunk) ==
    IF chunk = <<>> THEN "" ELSE DisplayToken(Head(chunk)) \o DisplayChunk(Tail(chunk))

(***************************************************************************)
(* The expression parser's specification: Parser::new(tokens).parse(0) on  *)
(* every token sequence of ExprInputs.                                     *)
(***************************************************************************)
\* the operand tokens Val(Int(n)), f(), self, a group; a variable
V(n) == Val(IntSeg(I64(n)))
TokF == FnCall("f", <<>>)
TokSelf == Ref("Curr", <<>>)
TokGroup == Group(<<>>)
TokA == Var("a")

BinaryOps == {Op(name) : name \in InfixArms}

\* the tokens of the free-form sequences
ExprAlphabet ==
    {V(1), TokA, TokF, TokSelf, TokGroup,
     Op("Or"), Op("And"), Op("Plus"), Op("Mul"), Op("Not"), Op("Pipe")}

RECURSIVE SeqsUpTo(_, _)
\* the sequences over S of length at most n
SeqsUpTo(S, n) ==
    IF n = 0 THEN {<<>>}
    ELSE LET shorter == SeqsUpTo(S, n - 1)
         IN  shorter \cup {Append(q, x) : q \in shorter, x \in S}

\* operand, operator, operand, operator, operand
ShapedInputs ==
    {<<a, op1, b, op2, c>> :
        a \in {V(1), TokF}, op1 \in BinaryOps, b \in {V(2), TokSelf},
        op2 \in BinaryOps, c \in {V(3), TokGroup}}

\* prefix operator, operand, operator, operand
PrefixInputs ==
    {<<p, a, op, b>> :
        p \in {Op("Not"), Op("Plus"), Op("Minus")}, a \in {V(1), TokF, TokSelf, TokGroup},
        op \in BinaryOps, b \in {V(2), TokF}}

ExprInputs == SeqsUpTo(ExprAlphabet, MaxTokens) \cup ShapedInputs \cup PrefixInputs

NoResult == [k |-> "none"]

TextIdle ==
    /\ input = <<>>
    /\ entry = "none"
    /\ result = NoResult

InitExpr ==
    /\ \E ts \in ExprInputs : ParserNew(ts)
    /\ TextIdle

NextExpr ==
    /\ (TakeLeading \/ LoopIterate \/ Return)
    /\ UNCHANGED textVars

SpecExpr == InitExpr /\ [][NextExpr]_vars

(***************************************************************************)
(* Claims about the expression parser.                                     *)
(***************************************************************************)
\* the level of a binary operator in the precedence table of the
\* specification (1 = loosest)
TableLevel(token) ==
    IF token.tk = "Or" THEN 1
    ELSE IF token.tk = "And" THEN 2
    ELSE IF token.tk \in {"Eq", "Ne"} THEN 3
    ELSE IF token.tk \in {"Lt", "Gt", "Le", "Ge"} THEN 4
    ELSE IF token.tk \in {"Plus", "Minus"} THEN 5
    ELSE 6

IsShaped == tokens \in ShapedInputs

\* the tree in which the second operator binds tighter: a op1 (b op2 c)
RightNested ==
    InfixOp(tokens[2], Primary(tokens[1]),
            InfixOp(tokens[4], Primary(tokens[3]), Primary(tokens[5])))

\* the tree in which the first operator binds tighter: (a op1 b) op2 c
LeftNested ==
    InfixOp(tokens[4],
            InfixOp(tokens[2], Primary(tokens[1]), Primary(tokens[3])),
            Primary(tokens[5]))

ByTable ==
    IF TableLevel(tokens[4]) > TableLevel(tokens[2]) THEN RightNested ELSE LeftNested

\* C1: among the operators other than Or, the operator on the tighter level
\* of the table becomes the inner node: [a, op1, b, op2, c] with op2 tighter
\* parses to InfixOp(op1, a, InfixOp(op2, b, c)), and with op1 tighter to
\* InfixOp(op2, InfixOp(op1, a, b), c).
C1_PrecedenceTable ==
    (/\ status # "running"
     /\ IsShaped
     /\ tokens[2].tk # "Or" /\ tokens[4].tk # "Or"
     /\ TableLevel(tokens[2]) # TableLevel(tokens[4]))
    => (status = "returned" /\ ret = ByTable)

\* C1 witness: 1 + 2 * 3 has been parsed to Plus(1, Mul(2, 3))
C1_Witness ==
    /\ status = "returned"
    /\ tokens = <<V(1), Op("Plus"), V(2), Op("Mul"), V(3)>>
    /\ ret = InfixOp(Op("Plus"), Primary(V(1)),
                     InfixOp(Op("Mul"), Primary(V(2)), Primary(V(3))))

\* C2: Or binds loosest: with exactly one Or among the two operators, the
\* Or is the root of the tree, whichever side it stands on.
C2_OrLoosest ==
    (/\ status # "running"
     /\ IsShaped
     /\ (tokens[2].tk = "Or") # (tokens[4].tk = "Or"))
    => (status = "returned" /\ ret = ByTable)

\* C7: Parser::parse never aborts the process, whatever the token sequence.
C7_NeverAborts == status # "panicked"

\* C8: when the top-level Parser::parse(0) returns a tree, no token of the
\* input is left unconsumed.
C8_NoTokenLeft == (status = "returned") => (cursor >= Len(inner))


(***************************************************************************)
(* The numeric scanner's specification: parse_numeric and                  *)
(* parse_literal_number on every text of NumericInputs.                    *)
(***************************************************************************)
ExprIdle ==
    /\ tokens = <<>>
    /\ inner = <<>>
    /\ cursor = 0
    /\ stack = <<>>
    /\ ret = NoChunk
    /\ status = "idle"

\* the entry point f is called on the input
Call(name, outcome) ==
    /\ entry = "none"
    /\ entry' = name
    /\ result' = outcome
    /\ UNCHANGED <<input, exprVars>>


DigitStrings(S) == SeqsUpTo(S, MaxDigits) \ {<<>>}

\* literals at the ends of the i64 range: i64::MAX, i64::MAX + 1 and beyond
BoundaryLiterals ==
    {Chars("0x7fffffffffffffff"), Chars("0x8000000000000000"),
     Chars("0xFFFFFFFFFFFFFFFF"), Chars("0x007fffffffffffffff"),
     Chars("0o777777777777777777777"), Chars("0o1000000000000000000000"),
     Chars("0b") \o Rep("1", 63), Chars("0b1") \o Rep("0", 63),
     Chars("9223372036854775807"), Chars("9223372036854775808"),
     Chars("99999999999999999999")}

RadixLiterals ==
    {Chars("0b") \o d : d \in DigitStrings({"0", "1"})}
    \cup {Chars("0o") \o d : d \in DigitStrings({"0", "7"})}
    \cup {Chars("0x") \o d : d \in DigitStrings({"1", "a", "F"})}
    \cup {d : d \in DigitStrings({"0", "9"})}

DecimalLiterals ==
    {i \o f \o e :
        i \in {Chars("1"), Chars("10"), Chars("123")},
        f \in {<<>>, Chars(".5"), Chars(".456")},
        e \in {<<>>, Chars("e1"), Chars("E2"), Chars("e+10"), Chars("e-10")}}

\* texts that are no literal, or a literal cut short
OtherNumericTexts ==
    {<<>>, Chars("Infinity"), Chars("-Infinity"), Chars("NaN"), Chars("-1"),
     Chars("0x"), Chars("0b2"), Chars("0o8"), Chars("0xg"), Chars("1."),
     Chars("1e"), Chars("1e+"), Chars("1.e5"), Chars(".5"), Chars("abc")}

NumericInputs ==
    {l \o suffix :
        l \in BoundaryLiterals \cup RadixLiterals \cup DecimalLiterals,
        suffix \in {<<>>, Chars(","), Chars(" ]")}}
    \cup OtherNumericTexts

InitNumeric ==
    /\ input \in NumericInputs
    /\ entry = "none"
    /\ result = NoResult
    /\ ExprIdle

call_parse_numeric == Call("parse_numeric", parse_numeric(input))

call_parse_literal_number == Call("parse_literal_number", parse_literal_number(input))

NextNumeric == call_parse_numeric \/ call_parse_literal_number

SpecNumeric == InitNumeric /\ [][NextNumeric]_vars

(***************************************************************************)
(* Claims about the numeric scanner.                                       *)
(***************************************************************************)
RECURSIVE RadixValue(_, _, _)
\* the value of the digit string s in the radix, as limbs whose high limb is
\* not bounded: the mathematical value, whatever its size
RadixValue(acc, s, radix) ==
    IF s = <<>> THEN acc
    ELSE LET low == acc[3] * radix + DigitValue(Head(s))
             mid == acc[2] * radix + (low \div LimbBase)
             high == acc[1] * radix + (mid \div LimbBase)
             next == <<high, mid % LimbBase, low % LimbBase>>
         IN  IF next[1] >= 0 THEN RadixValue(next, Tail(s), radix) ELSE acc

\* the radix digits of the prefixed form the text starts with, if any
PrefixedDigits(i, prefix, digits) ==
    IF StartsWith(i, Chars(prefix))
    THEN SubSeq(i, 3, 2 + SpanLen(Drop(i, 2), digits))
    ELSE <<>>

\* whether the text goes on with a fraction (.digit) or an exponent
\* (e or E, an optional sign, a digit)
HasFraction(i) == Len(i) >= 2 /\ i[1] = "." /\ i[2] \in DecDigits
HasExponent(i) ==
    /\ i # <<>> /\ Head(i) \in {"e", "E"}
    /\ \/ Len(i) >= 2 /\ i[2] \in DecDigits
       \/ Len(i) >= 3 /\ i[2] \in {"+", "-"} /\ i[3] \in DecDigits

\* how the grammar of the specification reads the text: an integer literal
\* (radix and digits), a float literal, or no literal
ReadAs(i) ==
    IF PrefixedDigits(i, "0b", BinDigits) # <<>>
    THEN [form |-> "int", radix |-> 2, digits |-> PrefixedDigits(i, "0b", BinDigits), skip |-> 2]
    ELSE IF PrefixedDigits(i, "0o", OctDigits) # <<>>
    THEN [form |-> "int", radix |-> 8, digits |-> PrefixedDigits(i, "0o", OctDigits), skip |-> 2]
    ELSE IF PrefixedDigits(i, "0x", HexDigits) # <<>>
    THEN [form |-> "int", radix |-> 16, digits |-> PrefixedDigits(i, "0x", HexDigits), skip |-> 2]
    ELSE LET n == SpanLen(i, DecDigits)
             after == Drop(i, n)
             afterFraction == IF HasFraction(after)
                              THEN Drop(after, 1 + SpanLen(Tail(after), DecDigits))
                              ELSE after
         IN  IF n = 0 THEN [form |-> "none"]
             ELSE IF HasFraction(after) \/ HasExponent(afterFraction)
             THEN [form |-> "float"]
             ELSE [form |-> "int", radix |-> 10, digits |-> SubSeq(i, 1, n), skip |-> 0]

Called == entry # "none"

OutOfRange(r) == RadixValue(I64(0), r.digits, r.radix)[1] >= LimbBase

\* C9: an integer literal whose value is outside the i64 range makes
\* parse_numeric return an error value (it does not abort the process).
C9_OverflowIsAnError ==
    (Called /\ ReadAs(input).form = "int" /\ OutOfRange(ReadAs(input)))
    => result.k \in {"Error", "Failure"}

\* C10: a prefixed literal 0b d / 0o d / 0x d parses to Int with the value of
\* d in radix 2 / 8 / 16, a decimal digit string without fraction and
\* exponent to Int with its decimal value, and a decimal with a fraction
\* or an exponent to Float; the rest of the text remains.
C10_KindAndValue ==
    LET r == ReadAs(input)
    IN  /\ (Called /\ r.form = "int")
            => /\ result.k = "Ok"
               /\ result.v = IntSeg(RadixValue(I64(0), r.digits, r.radix))
               /\ result.rest = Drop(input, r.skip + Len(r.digits))
        /\ (Called /\ r.form = "float")
            => (result.k = "Ok" /\ result.v.t = "Float")

\* C10 within the i64 range: the same statement for the literals whose value
\* fits an i64
NumericKindAndValueInRange ==
    LET r == ReadAs(input)
    IN  /\ (Called /\ r.form = "int" /\ ~OutOfRange(r))
            => /\ result.k = "Ok"
               /\ result.v = IntSeg(RadixValue(I64(0), r.digits, r.radix))
               /\ result.rest = Drop(input, r.skip + Len(r.digits))
        /\ (Called /\ r.form = "float")
            => (result.k = "Ok" /\ result.v.t = "Float")
        /\ (Called /\ r.form = "none" /\ result.k = "Ok")
            => (result.v.t = "Float" /\ result.v.v \in {"inf", "-inf", "NaN"})

\* the literals of numeric.rs tests::test give the values the test expects
NumericTestValues ==
    /\ parse_literal_number(Chars("0b1010")) = Ok(<<>>, IntSeg(I64(10)))
    /\ parse_literal_number(Chars("0o777")) = Ok(<<>>, IntSeg(I64(511)))
    /\ parse_literal_number(Chars("0x123")) = Ok(<<>>, IntSeg(I64(291)))
    /\ parse_literal_number(Chars("123")) = Ok(<<>>, IntSeg(I64(123)))
    /\ parse_literal_number(Chars("123.456e-10")) = Ok(<<>>, FloatSeg("123.456e-10"))
    /\ parse_literal_number(Chars("123.456e10")) = Ok(<<>>, FloatSeg("123.456e+10"))

(***************************************************************************)
(* The value dispatcher's specification: eson and parse_lst are called on  *)
(* a list of three elements whose second element is a function call,       *)
(* either bare or inside ${ }.                                             *)
(***************************************************************************)
OneEntryDict == DictSeg({[key |-> Key("x", Some(<<>>)), value |-> IntSeg(I64(2))]})

\* the first and the third element: a text and the segment it denotes
FirstElements ==
    <<[text |-> "1", seg |-> IntSeg(I64(1))],
      [text |-> "\"s\"", seg |-> StrSeg("s")],
      [text |-> "null", seg |-> NullSeg]>>

ThirdElements ==
    <<[text |-> "{x: 2}", seg |-> OneEntryDict],
      [text |-> "[]", seg |-> ListSeg(<<>>)],
      [text |-> "true", seg |-> BooleanSeg(TRUE)]>>

\* function calls: a text and the token it denotes
Calls ==
    <<[text |-> "f(a, b)", token |-> FnCall("f", <<<<Var("a")>>, <<Var("b")>>>>)],
      [text |-> "g()", token |-> FnCall("g", <<>>)],
      [text |-> "f(a)", token |-> FnCall("f", <<<<Var("a")>>>>)],
      [text |-> "h( a ,b )", token |-> FnCall("h", <<<<Var("a")>>, <<Var("b")>>>>)],
      [text |-> "f(g(a), 1)",
       token |-> FnCall("f", <<<<FnCall("g", <<<<Var("a")>>>>)>>, <<V(1)>>>>)]>>

\* the ways a call is written as an element
Bare(call) == call
InChunk(call) == "${" \o call \o "}"
InSpacedChunk(call) == "${ " \o call \o " }"

ListText(a, b, c) == Chars("[" \o a \o ", " \o b \o ", " \o c \o "]")

ValueInputs ==
    {ListText(FirstElements[i].text, form, ThirdElements[j].text) :
        i \in DOMAIN FirstElements, j \in DOMAIN ThirdElements,
        form \in UNION {{Bare(Calls[c].text), InChunk(Calls[c].text),
                         InSpacedChunk(Calls[c].text)} : c \in DOMAIN Calls}}

InitValue ==
    /\ input \in ValueInputs
    /\ entry = "none"
    /\ result = NoResult
    /\ ExprIdle

call_eson == Call("eson", Parse("eson", input))

call_parse_lst == Call("parse_lst", Parse("parse_lst", input))

NextValue == call_eson \/ call_parse_lst

SpecValue == InitValue /\ [][NextValue]_vars

\* the value the entry point returns for a list of the items
ListValue(items) == IF entry = "eson" THEN ListSeg(items) ELSE items

\* C3 as stated: on [1, f(a, b), {x: 2}] eson succeeds with the list of
\* Int(1), the function-call token f with the argument chunks [a] and [b],
\* and the one-entry dict {x: 2}.
C3_BareCallAccepted ==
    (entry = "eson" /\ input = Chars("[1, f(a, b), {x: 2}]"))
        => /\ result.k = "Ok"
           /\ result.v = ListSeg(<<IntSeg(I64(1)),
                                   ExprSeg(<<FnCall("f", <<<<Var("a")>>, <<Var("b")>>>>)>>),
                                   OneEntryDict>>)

\* C3 amended: a function call is a list element only inside ${ }: eson (and
\* parse_lst) return the three-element list whose second element is the
\* expression chunk holding the function-call token with its argument
\* chunks; on the bare call they return a hard failure at the call.
C3_CallInsideChunk ==
    \A i \in DOMAIN FirstElements, j \in DOMAIN ThirdElements, c \in DOMAIN Calls :
        LET a == FirstElements[i]
            call == Calls[c]
            z == ThirdElements[j]
            parsed == Ok(<<>>, ListValue(<<a.seg, ExprSeg(<<call.token>>), z.seg>>))
        IN  Called =>
              /\ input = ListText(a.text, InChunk(call.text), z.text) => result = parsed
              /\ input = ListText(a.text, InSpacedChunk(call.text), z.text) => result = parsed
              /\ input = ListText(a.text, Bare(call.text), z.text)
                    => result = Failure(Chars(call.text \o ", " \o z.text \o "]"))

C3_Witness ==
    /\ entry = "eson"
    /\ input = Chars("[1, ${f(a, b)}, {x: 2}]")
    /\ result.k = "Ok"
    /\ Len(result.v.v) = 3
    /\ result.v.v[2] = ExprSeg(<<FnCall("f", <<<<Var("a")>>, <<Var("b")>>>>)>>)
    /\ result.v.v[3] = OneEntryDict

(***************************************************************************)
(* The dictionary specification: parse_dict and parse_literal_dict are     *)
(* called on a dictionary whose key names repeat.                          *)
(***************************************************************************)
\* the ways a key is written: bare, quoted or annotated, for two names
KeyForms ==
    <<[text |-> "a", name |-> "a"],
      [text |-> "\"a\"", name |-> "a"],
      [text |-> "@k a", name |-> "a"],
      [text |-> "b", name |-> "b"],
      [text |-> "\"b\"", name |-> "b"],
      [text |-> "@k(1) @j b", name |-> "b"]>>

\* a dictionary is a sequence of key forms; the pair at position p has the
\* value p
PairSeqs == SeqsUpTo(DOMAIN KeyForms, MaxPairs) \ {<<>>}

RECURSIVE PairsText(_, _)
\* the pairs from position p on, separated by ", "
PairsText(forms, p) ==
    IF p > Len(forms) THEN ""
    ELSE KeyForms[forms[p]].text \o ": " \o ToString(p)
         \o (IF p = Len(forms) THEN "" ELSE ", " \o PairsText(forms, p + 1))

DictText(forms) == Chars("{" \o PairsText(forms, 1) \o "}")

DictCases == {[text |-> DictText(forms), forms |-> forms] : forms \in PairSeqs}

DictInputs == {c.text : c \in DictCases}

InitDict ==
    /\ input \in DictInputs
    /\ entry = "none"
    /\ result = NoResult
    /\ ExprIdle

call_parse_dict == Call("parse_dict", Parse("parse_dict", input))

call_parse_literal_dict == Call("parse_literal_dict", Parse("parse_literal_dict", input))

NextDict == call_parse_dict \/ call_parse_literal_dict

SpecDict == InitDict /\ [][NextDict]_vars

\* the names written in a dictionary, and the last position of a name
NamesOf(forms) == {KeyForms[forms[p]].name : p \in DOMAIN forms}
LastPosition(forms, name) ==
    CHOOSE p \in DOMAIN forms :
        /\ KeyForms[forms[p]].name = name
        /\ \A q \in DOMAIN forms : KeyForms[forms[q]].name = name => q <= p

\* C4: when a key name occurs several times in a dictionary text, with equal
\* or different annotations, parse_dict and parse_literal_dict return a map
\* with exactly one entry for the name, holding the value of the last
\* occurrence.
C4_LastWins ==
    \A c \in DictCases :
        (Called /\ input = c.text) =>
            /\ result.k = "Ok"
            /\ result.rest = <<>>
            /\ {e.key.name : e \in result.v} = NamesOf(c.forms)
            /\ \A name \in NamesOf(c.forms) :
                 /\ Cardinality({e \in result.v : e.key.name = name}) = 1
                 /\ \A e \in result.v :
                      e.key.name = name
                          => e.value = IntSeg(I64(LastPosition(c.forms, name)))

C4_Witness ==
    /\ entry = "parse_dict"
    /\ input = Chars("{a: 1, @k a: 2, b: 3}")
    /\ result.k = "Ok"
    /\ Cardinality(result.v) = 2
    /\ \E e \in result.v : e.key.name = "a" /\ e.value = IntSeg(I64(2))

(***************************************************************************)
(* The trailing-comma specification: the list and dict productions, live   *)
(* and literal, are called on a non-empty body closed with and without one *)
(* trailing comma.                                                         *)
(***************************************************************************)
\* elements of a list and pairs of a dict, valid in the live and the
\* literal grammar
ElementTexts == <<"1", "\"s\"", "[2]", "{a: 1}">>
PairTexts == <<"a: 1", "\"b\": \"s\"", "@k a: [2]", "c: {a: 1}">>

\* what stands between the last element, the comma and the closing bracket:
\* nothing, white space, a comment, and last a comment with no text
Layouts == <<"", " ", "\n", " // c\n", " //\n">>
BlankComment == Len(Layouts)

\* what follows the closing bracket
Suffixes == <<"", " x">>

RECURSIVE Joined(_, _, _)
\* the texts with the indices ixs, separated by ", "
Joined(texts, ixs, p) ==
    IF p > Len(ixs) THEN ""
    ELSE texts[ixs[p]] \o (IF p = Len(ixs) THEN "" ELSE ", " \o Joined(texts, ixs, p + 1))

Bodies == SeqsUpTo(1..4, MaxItems) \ {<<>>}

\* a body closed with a trailing comma and without it, in one layout
TrailingCase(open, texts, close, ixs, before, after, suffix) ==
    [with |-> Chars(open \o Joined(texts, ixs, 1) \o Layouts[before] \o ","
                    \o Layouts[after] \o close \o Suffixes[suffix]),
     without |-> Chars(open \o Joined(texts, ixs, 1) \o Layouts[before]
                       \o Layouts[after] \o close \o Suffixes[suffix]),
     blank |-> before = BlankComment \/ after = BlankComment]

TrailingCases ==
    {TrailingCase("[", ElementTexts, "]", ixs, before, after, suffix) :
        ixs \in Bodies, before \in DOMAIN Layouts, after \in DOMAIN Layouts,
        suffix \in DOMAIN Suffixes}
    \cup
    {TrailingCase("{", PairTexts, "}", ixs, before, after, suffix) :
        ixs \in Bodies, before \in DOMAIN Layouts, after \in DOMAIN Layouts,
        suffix \in DOMAIN Suffixes}

TrailingInputs == {c.with : c \in TrailingCases} \cup {c.without : c \in TrailingCases}

InitTrailing ==
    /\ input \in TrailingInputs
    /\ entry = "none"
    /\ result = NoResult
    /\ ExprIdle

call_parse_literal_lst == Call("parse_literal_lst", Parse("parse_literal_lst", input))

NextTrailing ==
    \/ call_parse_lst
    \/ call_parse_literal_lst
    \/ call_parse_dict
    \/ call_parse_literal_dict

SpecTrailing == InitTrailing /\ [][NextTrailing]_vars

\* two outcomes with the same value and the same remaining input, or both
\* without a value
SameOutcome(r1, r2) ==
    IF r1.k = "Ok" THEN r2.k = "Ok" /\ r2.v = r1.v /\ r2.rest = r1.rest
    ELSE r2.k = r1.k

\* C5: a non-empty list or dict written with one trailing comma before the
\* closing bracket parses to the same value and the same remaining input as
\* the text without the comma, in the live and in the literal grammar.
C5_TrailingCommaIdempotent ==
    \A c \in TrailingCases :
        (Called /\ input = c.with) => SameOutcome(result, Parse(entry, c.without))

\* the same, in the layouts that hold no comment without text
TrailingCommaWithoutBlankComment ==
    \A c \in TrailingCases :
        (Called /\ input = c.with /\ ~c.blank)
            => SameOutcome(result, Parse(entry, c.without))

\* the comma is read: a list with a trailing comma yields its elements
TrailingCommaRead ==
    \A c \in TrailingCases :
        (entry = "parse_lst" /\ input = c.with /\ ~c.blank /\ Head(input) = "[")
            => result.k = "Ok" /\ result.v # <<>>

(***************************************************************************)
(* The commit-point specification: the productions are called on a list or *)
(* a dict, well formed or broken after its opening bracket, alone and      *)
(* inside the enclosing combinators.                                       *)
(***************************************************************************)
\* lists and dicts, valid in the live and the literal grammar when well
\* formed
Cores ==
    <<"[1, 2]", "{a: 1}", "[]", "{}",
      "[1 2]", "[1, 2", "[", "[1,,]", "[1, }", "[[1 2]]", "[{a 1}]",
      "{a 1}", "{a: }", "{a: 1", "{", "{a: 1,, }", "{a: [1 2]}", "{a: 1 b: 2}">>

\* the committed production a core starts
ProductionOf(core, literal) ==
    IF Head(Chars(core)) = "["
    THEN (IF literal THEN "parse_literal_lst" ELSE "parse_lst")
    ELSE (IF literal THEN "parse_literal_dict" ELSE "parse_dict")

\* the enclosing combinators: the entry point called, what is written before
\* and after the core, the parser that reads the core inside, and what that
\* parser sees after the core
Wrappers ==
    <<[entry |-> "eson", prefix |-> "", suffix |-> "", inner |-> "live production", tail |-> ""],
      [entry |-> "eson_literal", prefix |-> "", suffix |-> "", inner |-> "literal production", tail |-> ""],
      [entry |-> "eson", prefix |-> " // c\n ", suffix |-> "", inner |-> "eson", tail |-> ""],
      [entry |-> "eson", prefix |-> "[", suffix |-> "", inner |-> "eson", tail |-> ""],
      [entry |-> "parse_lst", prefix |-> "[1, ", suffix |-> "", inner |-> "eson", tail |-> ""],
      [entry |-> "parse_dict", prefix |-> "{k: ", suffix |-> "", inner |-> "eson", tail |-> ""],
      [entry |-> "key_value", prefix |-> "k: ", suffix |-> "", inner |-> "eson", tail |-> ""],
      [entry |-> "eson", prefix |-> "${", suffix |-> "", inner |-> "eson", tail |-> ""],
      [entry |-> "eson", prefix |-> "${a + ", suffix |-> "", inner |-> "eson", tail |-> ""],
      [entry |-> "eson", prefix |-> "${f(", suffix |-> "", inner |-> "eson", tail |-> ""],
      [entry |-> "eson", prefix |-> "f\"${", suffix |-> "}\"", inner |-> "eson", tail |-> "}"],
      [entry |-> "eson", prefix |-> "{@n(", suffix |-> "", inner |-> "eson_literal", tail |-> ""],
      [entry |-> "parse_literal_dict", prefix |-> "{@n(1) k: ", suffix |-> "", inner |-> "eson_literal", tail |-> ""],
      [entry |-> "parse_literal_lst", prefix |-> "[1, ", suffix |-> "", inner |-> "eson_literal", tail |-> ""],
      [entry |-> "eson_literal", prefix |-> "{k: ", suffix |-> "", inner |-> "eson_literal", tail |-> ""]>>

CommitCases ==
    {[entry |-> Wrappers[w].entry,
      text |-> Chars(Wrappers[w].prefix \o Cores[c] \o Wrappers[w].suffix),
      inner |-> IF Wrappers[w].inner = "live production" THEN ProductionOf(Cores[c], FALSE)
                ELSE IF Wrappers[w].inner = "literal production" THEN ProductionOf(Cores[c], TRUE)
                ELSE Wrappers[w].inner,
      innerText |-> Chars(Cores[c] \o Wrappers[w].tail)] :
        w \in DOMAIN Wrappers, c \in DOMAIN Cores}

CommitInputs == {c.text : c \in CommitCases}

InitCommit ==
    /\ input \in CommitInputs
    /\ entry = "none"
    /\ result = NoResult
    /\ ExprIdle

call_eson_literal == Call("eson_literal", Parse("eson_literal", input))

call_key_value == Call("key_value", Parse("key_value", input))

NextCommit ==
    \/ call_eson
    \/ call_eson_literal
    \/ call_parse_lst
    \/ call_parse_literal_lst
    \/ call_parse_dict
    \/ call_parse_literal_dict
    \/ call_key_value

SpecCommit == InitCommit /\ [][NextCommit]_vars

\* the production has passed its commit point on the input
PastOpeningBracket ==
    \/ entry \in {"parse_lst", "parse_literal_lst"} /\ StartsWith(input, <<"[">>)
    \/ entry \in {"parse_dict", "parse_literal_dict"} /\ StartsWith(sp(input).rest, <<"{">>)

KeyWithoutColon ==
    /\ entry = "key_value"
    /\ key(input).k = "Ok"
    /\ ~StartsWith(sp(key(input).rest).rest, <<":">>)

\* C6: once parse_lst has matched [, parse_dict has matched {, or a key has
\* been read and the : is missing, a failure in the rest of the production
\* is a hard failure, and the enclosing alternations, repetitions and
\* options return that failure unchanged.
C6_CommitPoint ==
    /\ PastOpeningBracket => result.k \in {"Ok", "Failure"}
    /\ KeyWithoutColon => result = Failure(sp(key(input).rest).rest)
    /\ \A c \in CommitCases :
         (entry = c.entry /\ input = c.text /\ Parse(c.inner, c.innerText).k = "Failure")
            => result = Parse(c.inner, c.innerText)

\* a list broken after its bracket, inside a dict value inside the
\* tokenizer's function-call arguments
C6_Witness ==
    /\ entry = "eson"
    /\ input = Chars("${f({a: [1 2]}")
    /\ result = Failure(Chars("2]}"))

(***************************************************************************)
(* The annotation specification: annotation and parse_annotations are      *)
(* called on one annotation with no argument list, with an empty one, or   *)
(* with a list of literal values.                                          *)
(***************************************************************************)
AnnotationNames == <<"some", "_k1">>

\* literal values: a text and the segment it denotes
Literals ==
    <<[text |-> "1", seg |-> IntSeg(I64(1))],
      [text |-> "\"s\"", seg |-> StrSeg("s")],
      [text |-> "[2, true]", seg |-> ListSeg(<<IntSeg(I64(2)), BooleanSeg(TRUE)>>)],
      [text |-> "{x: 2}", seg |-> OneEntryDict]>>

\* the ways an argument list is laid out
ArgLayouts ==
    <<[open |-> "(", sep |-> ", ", close |-> ")"],
      [open |-> " ( ", sep |-> " ,", close |-> " )"],
      [open |-> "(\n  ", sep |-> ",\n  ", close |-> "\n)"]>>

\* what follows the closing parenthesis, and what of it is left unread
AfterArgs ==
    <<[text |-> "", rest |-> ""],
      [text |-> " \n", rest |-> "\n"],
      [text |-> "  x: 1", rest |-> "x: 1"]>>

\* what follows a name that has no argument list, and what of it is left
\* unread: a parenthesis is on a later line or absent
AfterName ==
    <<[text |-> "", rest |-> ""],
      [text |-> " ", rest |-> ""],
      [text |-> "\n(1)", rest |-> "\n(1)"],
      [text |-> " \n (1)", rest |-> "\n (1)"],
      [text |-> " x: 1", rest |-> "x: 1"],
      [text |-> ": 1", rest |-> ": 1"],
      [text |-> " [1]", rest |-> "[1]"]>>

ArgLists == SeqsUpTo(DOMAIN Literals, MaxArgs)

RECURSIVE ArgsText(_, _, _)
\* the texts of the literals ixs from position p on, separated by sep
ArgsText(ixs, sep, p) ==
    IF p > Len(ixs) THEN ""
    ELSE Literals[ixs[p]].text
         \o (IF p = Len(ixs) THEN "" ELSE sep \o ArgsText(ixs, sep, p + 1))

ArgsValue(ixs) == [p \in DOMAIN ixs |-> Literals[ixs[p]].seg]

\* an annotation text, the annotation it denotes and the text left unread
AnnotationCases ==
    {[text |-> Chars("@" \o AnnotationNames[n] \o AfterName[f].text),
      expected |-> Annotation(AnnotationNames[n], None),
      rest |-> Chars(AfterName[f].rest)] :
        n \in DOMAIN AnnotationNames, f \in DOMAIN AfterName}
    \cup
    {[text |-> Chars("@" \o AnnotationNames[n] \o ArgLayouts[l].open
                     \o ArgsText(ixs, ArgLayouts[l].sep, 1) \o ArgLayouts[l].close
                     \o AfterArgs[f].text),
      expected |-> Annotation(AnnotationNames[n], Some(ArgsValue(ixs))),
      rest |-> Chars(AfterArgs[f].rest)] :
        n \in DOMAIN AnnotationNames, l \in DOMAIN ArgLayouts,
        ixs \in ArgLists, f \in DOMAIN AfterArgs}

AnnotationInputs == {c.text : c \in AnnotationCases}

InitAnnotation ==
    /\ input \in AnnotationInputs
    /\ entry = "none"
    /\ result = NoResult
    /\ ExprIdle

call_annotation == Call("annotation", Parse("annotation", input))

call_parse_annotations == Call("parse_annotations", Parse("parse_annotations", input))

NextAnnotation == call_annotation \/ call_parse_annotations

SpecAnnotation == InitAnnotation /\ [][NextAnnotation]_vars

\* C11: the value of an annotation has three states: a name with no
\* parenthesis on its line has the value None, a name with () has Some of
\* the empty list, and a name with (l1, ..., lk) has Some of the literals in
\* source order; parse_annotations returns that annotation alone.
C11_AnnotationValue ==
    \A c \in AnnotationCases :
        (Called /\ input = c.text) =>
            IF entry = "annotation"
            THEN result = Ok(c.rest, c.expected)
            ELSE result = Ok(multispace0(c.rest).rest, <<c.expected>>)

C11_Witness ==
    /\ entry = "annotation"
    /\ input = Chars("@some(1, \"s\", {x: 2})")
    /\ result = Ok(<<>>, Annotation("some", Some(<<IntSeg(I64(1)), StrSeg("s"), OneEntryDict>>)))

C11_WitnessNone ==
    /\ entry = "annotation"
    /\ input = Chars("@some\n(1)")
    /\ result = Ok(Chars("\n(1)"), Annotation("some", None))

C11_WitnessEmpty ==
    /\ entry = "annotation"
    /\ input = Chars("@some()")
    /\ result = Ok(<<>>, Annotation("some", Some(<<>>)))

(***************************************************************************)
(* The reference specification: reference and expr_token_set are called on *)
(* a pronoun followed by a path of index segments.                         *)
(***************************************************************************)
Pronouns ==
    <<[text |-> "self", pronoun |-> "Curr"],
      [text |-> "super", pronoun |-> "Super"],
      [text |-> "$", pronoun |-> "Root"]>>

\* index segments: a text and the index it denotes
Segments ==
    <<[text |-> ".ele", index |-> RefIndexStr("ele")],
      [text |-> "[\"ele\"]", index |-> RefIndexStr("ele")],
      [text |-> "[0]", index |-> RefIndexInt(0)],
      [text |-> " . b1 ", index |-> RefIndexStr("b1")],
      [text |-> "[ 32767 ]", index |-> RefIndexInt(32767)]>>

\* what follows the reference
AfterReference == <<"", " }">>

Paths == SeqsUpTo(DOMAIN Segments, MaxPath)

RECURSIVE PathText(_, _)
PathText(ixs, p) ==
    IF p > Len(ixs) THEN "" ELSE Segments[ixs[p]].text \o PathText(ixs, p + 1)

PathValue(ixs) == [p \in DOMAIN ixs |-> Segments[ixs[p]].index]

\* a reference text, its token, and the text left unread: the white space
\* after a segment is read with the segment
ReferenceCases ==
    {[text |-> Chars(Pronouns[h].text \o PathText(ixs, 1) \o AfterReference[f]),
      token |-> Ref(Pronouns[h].pronoun, PathValue(ixs)),
      rest |-> IF ixs = <<>> THEN Chars(AfterReference[f])
               ELSE multispace0(Chars(AfterReference[f])).rest] :
        h \in DOMAIN Pronouns, ixs \in Paths, f \in DOMAIN AfterReference}

InitReference ==
    /\ input \in {c.text : c \in ReferenceCases}
    /\ entry = "none"
    /\ result = NoResult
    /\ ExprIdle

call_reference == Call("reference", Parse("reference", input))

call_expr_token_set == Call("expr_token_set", Parse("expr_token_set", input))

NextReference == call_reference \/ call_expr_token_set

SpecReference == InitReference /\ [][NextReference]_vars

\* C12: self, super and $ give Ref(Curr), Ref(Super) and Ref(Root); the
\* path holds one index per segment in source order, .id and ["id"] give
\* the same Str(id) and [N] gives Int(N); a pronoun alone has an empty path.
\* The tokenizer reads the same reference as its only token.
C12_ReferenceToken ==
    \A c \in ReferenceCases :
        (Called /\ input = c.text) =>
            result = Ok(c.rest, IF entry = "reference" THEN c.token ELSE <<c.token>>)

C12_Witness ==
    /\ entry = "expr_token_set"
    /\ input = Chars("super[\"ele\"].ele[0]")
    /\ result = Ok(<<>>, <<Ref("Super", <<RefIndexStr("ele"), RefIndexStr("ele"),
                                          RefIndexInt(0)>>)>>)

(***************************************************************************)
(* The function-call specification: fn_call and expr_token_set are called  *)
(* on an identifier followed by a parenthesised list of argument texts.    *)
(***************************************************************************)
FunctionNames == <<"f", "fn_call2">>

\* argument texts: a text and the chunk it tokenizes to
Arguments ==
    <<[text |-> "a", chunk |-> <<Var("a")>>],
      [text |-> "1", chunk |-> <<V(1)>>],
      [text |-> "g(b, h())",
       chunk |-> <<FnCall("g", <<<<Var("b")>>, <<FnCall("h", <<>>)>>>>)>>],
      [text |-> "x * self.k",
       chunk |-> <<Var("x"), Op("Mul"), Ref("Curr", <<RefIndexStr("k")>>)>>]>>

\* the ways the argument list is laid out
CallLayouts ==
    <<[open |-> "(", sep |-> ", ", close |-> ")"],
      [open |-> " ( ", sep |-> " ,", close |-> " ) "]>>

\* what follows the call, and what of it is left unread
AfterCall == <<[text |-> "", rest |-> ""], [text |-> " }", rest |-> "}"]>>

ArgumentLists == SeqsUpTo(DOMAIN Arguments, MaxArgs)

RECURSIVE ArgumentsText(_, _, _)
ArgumentsText(ixs, sep, p) ==
    IF p > Len(ixs) THEN ""
    ELSE Arguments[ixs[p]].text
         \o (IF p = Len(ixs) THEN "" ELSE sep \o ArgumentsText(ixs, sep, p + 1))

FnCallCases ==
    {[text |-> Chars(FunctionNames[n] \o CallLayouts[l].open
                     \o ArgumentsText(ixs, CallLayouts[l].sep, 1)
                     \o CallLayouts[l].close \o AfterCall[f].text),
      token |-> FnCall(FunctionNames[n], [p \in DOMAIN ixs |-> Arguments[ixs[p]].chunk]),
      rest |-> Chars(AfterCall[f].rest)] :
        n \in DOMAIN FunctionNames, l \in DOMAIN CallLayouts,
        ixs \in ArgumentLists, f \in DOMAIN AfterCall}

InitFnCall ==
    /\ input \in {c.text : c \in FnCallCases}
    /\ entry = "none"
    /\ result = NoResult
    /\ ExprIdle

call_fn_call == Call("fn_call", Parse("fn_call", input))

call_var == Call("var", Parse("var", input))

NextFnCall == call_fn_call \/ call_expr_token_set \/ call_var

SpecFnCall == InitFnCall /\ [][NextFnCall]_vars

\* C13: id(a1, ..., ak) tokenizes to the single token FnCall(id, [c1, ...,
\* ck]), ci the chunk of ai, in source order and with nested calls
\* tokenized the same way; id() has an empty argument list; the tokenizer
\* reads the call and not the variable id, which var alone would read.
C13_FnCallToken ==
    \A c \in FnCallCases :
        (Called /\ input = c.text) =>
            /\ entry = "fn_call" => result = Ok(c.rest, c.token)
            /\ entry = "expr_token_set" => result = Ok(c.rest, <<c.token>>)
            /\ entry = "var" => result.k = "Ok" /\ result.v = Var(c.token.x)

C13_Witness ==
    /\ entry = "expr_token_set"
    /\ input = Chars("f(a, g(b, h()), 1)")
    /\ result = Ok(<<>>, <<FnCall("f", <<<<Var("a")>>,
                                         <<FnCall("g", <<<<Var("b")>>, <<FnCall("h", <<>>)>>>>)>>,
                                         <<V(1)>>>>)>>)

(***************************************************************************)
(* The raw string specification: parse_string and parse_literal_string are *)
(* called on r, an opening fence, a content and a closing fence.           *)
(***************************************************************************)
\* the characters of a raw content: a letter, a backslash, a quote, a hash,
\* and characters of two and of three bytes
RawAlphabet == <<"a", "\\", "\"", "#", "<U+233>", "<U+8364>">>

RawContents ==
    {[p \in DOMAIN ixs |-> RawAlphabet[ixs[p]]] : ixs \in SeqsUpTo(DOMAIN RawAlphabet, MaxContent)}

RECURSIVE HasInfix(_, _)
\* whether the text t occurs in the text s
HasInfix(s, t) ==
    IF Len(s) < Len(t) THEN FALSE
    ELSE StartsWith(s, t) \/ HasInfix(Tail(s), t)

Fence(n) == <<"\"">> \o Rep("#", n)

\* what follows the closing fence
AfterString == <<"", ", 1">>

\* r, n hashes, a quote, the content, a quote, m hashes: with equal counts
\* the content holds no closing fence, with different counts it holds no
\* quote
RawCasesOf(n, m) ==
    {[text |-> <<"r">> \o Rep("#", n) \o <<"\"">> \o c \o Fence(m) \o Chars(AfterString[f]),
      opening |-> n, closing |-> m, content |-> c, rest |-> Chars(AfterString[f])] :
        c \in {x \in RawContents : ~HasInfix(x, Fence(IF n = m THEN n ELSE 0))},
        f \in DOMAIN AfterString}

RawCases == UNION {RawCasesOf(n, m) : n \in 0..MaxHashes, m \in 0..MaxHashes}

InitRaw ==
    /\ input \in {c.text : c \in RawCases}
    /\ entry = "none"
    /\ result = NoResult
    /\ ExprIdle

call_parse_string == Call("parse_string", Parse("parse_string", input))

call_parse_literal_string == Call("parse_literal_string", Parse("parse_literal_string", input))

NextRaw == call_parse_string \/ call_parse_literal_string

SpecRaw == InitRaw /\ [][NextRaw]_vars

IsAscii(c) == \A p \in DOMAIN c : Len(c[p]) = 1

\* C14: a raw string with equal fences and a content that holds no closing
\* fence parses to exactly the content, whatever characters it holds, and
\* leaves exactly the text after the closing fence.
C14_RawVerbatim ==
    \A c \in RawCases :
        (Called /\ input = c.text /\ c.opening = c.closing)
            => result = Ok(c.rest, Concat(c.content))

\* the same for a content of one-byte characters
RawVerbatimAscii ==
    \A c \in RawCases :
        (Called /\ input = c.text /\ c.opening = c.closing /\ IsAscii(c.content))
            => result = Ok(c.rest, Concat(c.content))

\* C15: a raw string whose closing fence has fewer or more hashes than the
\* opening one returns an error.
C15_MismatchedFenceFails ==
    \A c \in RawCases :
        (Called /\ input = c.text /\ c.opening # c.closing)
            => result.k \in {"Error", "Failure"}

\* a closing fence with fewer hashes is an error; one with more hashes is
\* read up to the opening count and the other hashes are left unread
MismatchedFenceRead ==
    \A c \in RawCases :
        (Called /\ input = c.text /\ IsAscii(c.content)) =>
            /\ c.closing < c.opening => result.k = "Error"
            /\ c.closing > c.opening
                  => result = Ok(Rep("#", c.closing - c.opening) \o c.rest, Concat(c.content))

(***************************************************************************)
(* The format string specification: parse_string and eson are called on f, *)
(* a fence and a content of literal runs, escapes and splices.             *)
(***************************************************************************)
\* the pieces of a format content: a text, what it contributes to the
\* string, and whether it is plain (one-byte characters, a dollar sign only
\* as the start of a splice)
FormatPieces ==
    <<[text |-> "hello ", out |-> "hello ", plain |-> TRUE],
      [text |-> "\\n\\u{41}", out |-> "\nA", plain |-> TRUE],
      [text |-> "\\\n   ", out |-> "", plain |-> TRUE],
      [text |-> "${name}", out |-> "Var(name)", plain |-> TRUE],
      [text |-> "${ foo(bar, 1) }",
       out |-> DisplayChunk(<<FnCall("foo", <<<<Var("bar")>>, <<V(1)>>>>)>>),
       plain |-> TRUE],
      [text |-> "$5", out |-> "$5", plain |-> FALSE],
      [text |-> "<U+233>", out |-> "<U+233>", plain |-> FALSE]>>

FormatContents == SeqsUpTo(DOMAIN FormatPieces, MaxPieces)

RECURSIVE PiecesText(_, _), PiecesOut(_, _)
\* the content's characters
PiecesText(ixs, p) ==
    IF p > Len(ixs) THEN <<>>
    ELSE (IF FormatPieces[ixs[p]].text = "<U+233>" THEN <<"<U+233>">>
          ELSE Chars(FormatPieces[ixs[p]].text)) \o PiecesText(ixs, p + 1)

\* the in-order concatenation of what the pieces contribute
PiecesOut(ixs, p) ==
    IF p > Len(ixs) THEN "" ELSE FormatPieces[ixs[p]].out \o PiecesOut(ixs, p + 1)

FormatCases ==
    {[text |-> <<"f">> \o Rep("#", n) \o <<"\"">> \o PiecesText(ixs, 1) \o Fence(n)
               \o Chars(AfterString[f]),
      out |-> PiecesOut(ixs, 1),
      plain |-> \A p \in DOMAIN ixs : FormatPieces[ixs[p]].plain,
      rest |-> Chars(AfterString[f])] :
        n \in 0..MaxHashes, ixs \in FormatContents, f \in DOMAIN AfterString}

InitFormat ==
    /\ input \in {c.text : c \in FormatCases}
    /\ entry = "none"
    /\ result = NoResult
    /\ ExprIdle

NextFormat == call_parse_string \/ call_eson

SpecFormat == InitFormat /\ [][NextFormat]_vars

\* the value the entry point returns for a string
StringValue(string) == IF entry = "eson" THEN StrSeg(string) ELSE string

\* C16: a format string parses to the in-order concatenation of its
\* literal runs, its decoded escapes and, for each splice, the rendering of
\* the splice's token chunk (${name} renders as Var(name)), whatever text
\* stands before or after a splice.
C16_FormatRendering ==
    \A c \in FormatCases :
        (Called /\ input = c.text) => result = Ok(c.rest, StringValue(c.out))

\* the same for a content of one-byte characters where a dollar sign only
\* starts a splice
FormatRenderingPlain ==
    \A c \in FormatCases :
        (Called /\ input = c.text /\ c.plain) => result = Ok(c.rest, StringValue(c.out))

(***************************************************************************)
(* The escaped string specification: parse_string, parse_literal_string    *)
(* and eson are called on a quoted string of literal runs and escapes,     *)
(* closed, unclosed, or holding a backslash that starts no escape.         *)
(***************************************************************************)
\* the pieces of a quoted content: the characters and what they contribute
EscapedPieces ==
    <<[chars |-> Chars("John"), out |-> "John"],
      [chars |-> <<"\\", "n", "\\", "\"", "\\", "\\", "\\", "/", "\\", "b", "\\", "f",
                   "\\", "t", "\\", "r">>,
       out |-> "\n\"\\/<U+8><U+12>\t\r"],
      [chars |-> Chars("\\u{1F601}\\u00e9x"), out |-> "<U+128513><U+233>x"],
      [chars |-> <<"\\", "\n", " ", "\t">>, out |-> ""],
      [chars |-> <<"<U+233>">> \o Chars(" ${x}"), out |-> "<U+233> ${x}"]>>

\* a backslash that starts no valid escape
BadEscapes ==
    <<Chars("\\q"), Chars("\\u{D800}"), Chars("\\u12"), Chars("\\u{}"), Chars("\\u{1234567}")>>

EscapedContents == SeqsUpTo(DOMAIN EscapedPieces, MaxPieces)

RECURSIVE EscapedChars(_, _), EscapedOut(_, _)
EscapedChars(ixs, p) ==
    IF p > Len(ixs) THEN <<>> ELSE EscapedPieces[ixs[p]].chars \o EscapedChars(ixs, p + 1)

EscapedOut(ixs, p) ==
    IF p > Len(ixs) THEN "" ELSE EscapedPieces[ixs[p]].out \o EscapedOut(ixs, p + 1)

\* closed strings with their value, unclosed strings, and strings with a
\* bad escape between two contents of at most one piece
EscapedCases ==
    {[text |-> <<"\"">> \o EscapedChars(ixs, 1) \o <<"\"">> \o Chars(AfterString[f]),
      ok |-> TRUE, out |-> EscapedOut(ixs, 1), rest |-> Chars(AfterString[f])] :
        ixs \in EscapedContents, f \in DOMAIN AfterString}
    \cup
    {[text |-> <<"\"">> \o EscapedChars(ixs, 1) \o Chars(AfterString[f]),
      ok |-> FALSE, out |-> "", rest |-> <<>>] :
        ixs \in EscapedContents, f \in DOMAIN AfterString}
    \cup
    {[text |-> <<"\"">> \o EscapedChars(pre, 1) \o BadEscapes[b] \o EscapedChars(post, 1)
               \o <<"\"">> \o Chars(AfterString[f]),
      ok |-> FALSE, out |-> "", rest |-> <<>>] :
        pre \in SeqsUpTo(DOMAIN EscapedPieces, 1), post \in SeqsUpTo(DOMAIN EscapedPieces, 1),
        b \in DOMAIN BadEscapes, f \in DOMAIN AfterString}

InitEscaped ==
    /\ input \in {c.text : c \in EscapedCases}
    /\ entry = "none"
    /\ result = NoResult
    /\ ExprIdle

NextEscaped == call_parse_string \/ call_parse_literal_string \/ call_eson

SpecEscaped == InitEscaped /\ [][NextEscaped]_vars

\* C17: a quoted string parses to the in-order concatenation of its
\* literal runs and decoded escapes, a backslash with the white space after
\* it contributing nothing; a string with no closing quote, or with a
\* backslash that starts no valid escape, is an error.
C17_EscapedDecoding ==
    \A c \in EscapedCases :
        (Called /\ input = c.text) =>
            IF c.ok THEN result = Ok(c.rest, StringValue(c.out))
            ELSE result.k \in {"Error", "Failure"}

C17_Witness ==
    /\ entry = "parse_string"
    /\ input = Chars("\"John") \o <<"\\", "\n", " ", "\t">> \o Chars("\\u{1F601}\\u00e9x\"")
    /\ result = Ok(<<>>, "John<U+128513><U+233>x")

C17_WitnessError ==
    /\ entry = "parse_string"
    /\ input = Chars("\"John\\q\"")
    /\ result.k = "Error"

(***************************************************************************)
(* The skipper specification: sp and comment are called on blanks, line    *)
(* breaks and comments followed by a text.                                 *)
(***************************************************************************)
\* what is skipped: a text, and whether it is a comment with no text
SkipUnits ==
    <<[text |-> " ", blank |-> FALSE],
      [text |-> "\n", blank |-> FALSE],
      [text |-> "// note\n", blank |-> FALSE],
      [text |-> "//note // more\n", blank |-> FALSE],
      [text |-> "//\n", blank |-> TRUE],
      [text |-> "// \t\n", blank |-> TRUE]>>

\* what follows the skipped units
SkipTails == <<"", "X", "X\nY\n", "[1]\n", "// end">>

RECURSIVE UnitsText(_, _)
UnitsText(ixs, p) ==
    IF p > Len(ixs) THEN "" ELSE SkipUnits[ixs[p]].text \o UnitsText(ixs, p + 1)

SkipCases ==
    {[text |-> Chars(UnitsText(ixs, 1) \o SkipTails[t]),
      blank |-> \E p \in DOMAIN ixs : SkipUnits[ixs[p]].blank] :
        ixs \in SeqsUpTo(DOMAIN SkipUnits, MaxUnits), t \in DOMAIN SkipTails}

InitSkip ==
    /\ input \in {c.text : c \in SkipCases}
    /\ entry = "none"
    /\ result = NoResult
    /\ ExprIdle

call_sp == Call("sp", sp(input))

call_comment == Call("comment", Parse("comment", input))

NextSkip == call_sp \/ call_comment

SpecSkip == InitSkip /\ [][NextSkip]_vars

\* the text after the first line break of i, i holding one
AfterFirstNewline(i) == Drop(i, IndexOf(i, "\n") + 1)

RECURSIVE AfterSpaceAndComments(_)
\* what is left of i after runs of white space and comments that each end
\* at the first line break after their //
AfterSpaceAndComments(i) ==
    IF i # <<>> /\ Head(i) \in Multispace THEN AfterSpaceAndComments(Tail(i))
    ELSE IF StartsWith(i, <<"/", "/">>) /\ IndexOf(i, "\n") < Len(i)
    THEN AfterSpaceAndComments(AfterFirstNewline(i))
    ELSE i

\* C18: sp succeeds on every input, and each comment it skips ends with the
\* first line break after its //; nothing of the next line is consumed but
\* white space. comment alone leaves the text after that line break.
C18_CommentEndsAtNewline ==
    /\ (Called /\ entry = "sp") => result.k = "Ok" /\ result.rest = AfterSpaceAndComments(input)
    /\ (Called /\ entry = "comment" /\ result.k = "Ok")
          => result.rest = AfterFirstNewline(multispace0(input).rest)

\* the same for inputs in which every comment has a text
CommentWithTextEndsAtNewline ==
    \A c \in SkipCases :
        (Called /\ input = c.text /\ ~c.blank) =>
            /\ entry = "sp" => result.k = "Ok" /\ result.rest = AfterSpaceAndComments(input)
            /\ (entry = "comment" /\ result.k = "Ok")
                  => result.rest = AfterFirstNewline(multispace0(input).rest)

\* sp never fails
SkipperSucceeds == (Called /\ entry = "sp") => result.k = "Ok"

(***************************************************************************)
(* The literal grammar specification: eson_literal, parse_literal_lst,     *)
(* parse_literal_dict and eson are called on a value, a list or a dict     *)
(* with a literal or an expression in a value position.                    *)
(***************************************************************************)
\* what stands in the value position, and whether it is an expression
\* literal or a format string
ValueItems ==
    <<[text |-> "1", expr |-> FALSE],
      [text |-> "\"s\"", expr |-> FALSE],
      [text |-> "r#\"${x}\"#", expr |-> FALSE],
      [text |-> "true", expr |-> FALSE],
      [text |-> "null", expr |-> FALSE],
      [text |-> "[2, 3]", expr |-> FALSE],
      [text |-> "{k: 2}", expr |-> FALSE],
      [text |-> "${x}", expr |-> TRUE],
      [text |-> "${ f(1) + self.k }", expr |-> TRUE],
      [text |-> "f\"a${x}\"", expr |-> TRUE],
      [text |-> "f#\"a\"#", expr |-> TRUE],
      [text |-> "f\"\"", expr |-> TRUE]>>

\* where the value position is: the text before and after it, and the
\* production whose text it is
ValueContexts ==
    <<[before |-> "", after |-> "", kind |-> "value"],
      [before |-> " // c\n ", after |-> "", kind |-> "value"],
      [before |-> "[", after |-> "]", kind |-> "list"],
      [before |-> "[1, ", after |-> "]", kind |-> "list"],
      [before |-> "[", after |-> ", 1]", kind |-> "list"],
      [before |-> "[[", after |-> "], 1]", kind |-> "list"],
      [before |-> "[{a: ", after |-> "}]", kind |-> "list"],
      [before |-> "{a: ", after |-> "}", kind |-> "dict"],
      [before |-> "{a: 1, @k(1) b: ", after |-> ",}", kind |-> "dict"],
      [before |-> "{a: [1, ", after |-> "]}", kind |-> "dict"],
      [before |-> "{a: {b: ", after |-> "}}", kind |-> "dict"]>>

LiteralCases ==
    {[text |-> Chars(ValueContexts[c].before \o ValueItems[v].text \o ValueContexts[c].after),
      expr |-> ValueItems[v].expr, kind |-> ValueContexts[c].kind] :
        c \in DOMAIN ValueContexts, v \in DOMAIN ValueItems}

\* a literal dict whose key is a format string
FormatKeyText == Chars("{f\"${x}\": 1}")

InitLiteral ==
    /\ input \in {c.text : c \in LiteralCases} \cup {FormatKeyText}
    /\ entry = "none"
    /\ result = NoResult
    /\ ExprIdle

NextLiteral ==
    call_eson_literal \/ call_parse_literal_lst \/ call_parse_literal_dict \/ call_eson

SpecLiteral == InitLiteral /\ [][NextLiteral]_vars

RECURSIVE HoldsExpr(_)
\* whether a segment is, or holds at any depth, an expression
HoldsExpr(seg) ==
    \/ seg.t = "Expr"
    \/ seg.t = "List" /\ \E p \in DOMAIN seg.v : HoldsExpr(seg.v[p])
    \/ seg.t = "Dict" /\ \E e \in seg.v : HoldsExpr(e.value)

\* the result's value as a segment
ResultSegment ==
    IF entry = "parse_literal_lst" THEN ListSeg(result.v)
    ELSE IF entry = "parse_literal_dict" THEN DictSeg(result.v)
    ELSE result.v

\* whether the entry point is a literal production that reads texts of the kind
LiteralEntryFor(kind) ==
    \/ entry = "eson_literal"
    \/ entry = "parse_literal_lst" /\ kind = "list"
    \/ entry = "parse_literal_dict" /\ kind = "dict"

\* C19: the literal grammar accepts no expression: with a ${ } literal or
\* a format string as the value, as a list element or as a dict value,
\* eson_literal, parse_literal_lst and parse_literal_dict fail; with a
\* literal there they read the whole text and the value holds no
\* expression. eson reads all of these texts.
C19_LiteralHasNoExpression ==
    \A c \in LiteralCases :
        (Called /\ input = c.text) =>
            /\ (LiteralEntryFor(c.kind) /\ c.expr) => result.k \in {"Error", "Failure"}
            /\ (LiteralEntryFor(c.kind) /\ ~c.expr)
                  => result.k = "Ok" /\ result.rest = <<>> /\ ~HoldsExpr(ResultSegment)
            /\ entry = "eson" => result.k = "Ok" /\ result.rest = <<>>

C19_Witness ==
    /\ entry = "eson_literal"
    /\ input = Chars("{a: 1, @k(1) b: ${ f(1) + self.k },}")
    /\ result.k = "Failure"

\* a dict key is read by parse_string in the literal grammar too: a format
\* string is accepted as a key and its splice is rendered into the name
LiteralKeyMayBeFormatString ==
    (entry \in {"eson_literal", "parse_literal_dict"} /\ input = FormatKeyText)
        => /\ result.k = "Ok"
           /\ \E e \in (IF entry = "eson_literal" THEN result.v.v ELSE result.v) :
                e.key.name = "Var(x)"

(***************************************************************************)
(* Prefix operators in the expression parser.                              *)
(***************************************************************************)
IsPrefixed == tokens \in PrefixInputs

\* the tree in which the prefix operator binds tighter than the binary one
PrefixInner ==
    InfixOp(tokens[3], PrefixOp(tokens[1], Primary(tokens[2])), Primary(tokens[4]))

\* C20: a prefix operator binds tighter than every binary operator: parse(0)
\* on [p, a, op, b] with p one of !, unary +, unary - returns
\* InfixOp(op, PrefixOp(p, a), b).
C20_PrefixBindsTightest ==
    (status # "running" /\ IsPrefixed) => (status = "returned" /\ ret = PrefixInner)

\* the same for ! before any binary operator, and for unary + and - before
\* the operators that are not multiplicative
PrefixBindsTighterThanAdditive ==
    (/\ status # "running"
     /\ IsPrefixed
     /\ tokens[1].tk = "Not" \/ tokens[3].tk \notin {"Mul", "Div", "Mod"})
    => (status = "returned" /\ ret = PrefixInner)

\* unary + and - before a multiplicative operator take the product as
\* their operand
PrefixTakesProduct ==
    (/\ status # "running"
     /\ IsPrefixed
     /\ tokens[1].tk \in {"Plus", "Minus"} /\ tokens[3].tk \in {"Mul", "Div", "Mod"})
    => /\ status = "returned"
       /\ ret = PrefixOp(tokens[1], InfixOp(tokens[3], Primary(tokens[2]), Primary(tokens[4])))

(***************************************************************************)
(* The tokens of a tree and the tokens a call has consumed.                *)
(***************************************************************************)
RECURSIVE InOrder(_)
\* the tokens of a tree read left to right: left child, operator, right
\* child; operator before the operand of a PrefixOp, operand before the
\* token of a PostfixOp (the order in which Display writes them)
InOrder(chunk) ==
    IF chunk.ck = "Primary" THEN <<chunk.token>>
    ELSE IF chunk.ck = "PrefixOp" THEN <<chunk.token>> \o InOrder(chunk.rhs)
    ELSE IF chunk.ck = "InfixOp"
    THEN InOrder(chunk.lhs) \o <<chunk.token>> \o InOrder(chunk.rhs)
    ELSE InOrder(chunk.lhs) \o <<chunk.token>>

\* the tokens removed from the Vec so far
Consumed == SubSeq(tokens, 1, Len(tokens) - Len(inner))

OperandTokens == {"Val", "FnCall", "Ref", "Group"}

\* a Not stands right after an operand or a postfix token
NotAfterOperand ==
    \E n \in 2..Len(tokens) :
        tokens[n].tk = "Not" /\ tokens[n - 1].tk \in OperandTokens

\* C21: the tree returned by Parser::parse holds every consumed token
\* exactly once and in the original order: reading the tree left to right
\* gives back the consumed tokens; no parsed operand is dropped, also when
\* a Not follows a complete operand.
C21_TokenConservation == (status = "returned") => (InOrder(ret) = Consumed)

\* the tokens are removed from the front in order: what is left in the Vec
\* is a suffix of the input and the cursor stays at 0
TakenFromTheFront ==
    /\ cursor = 0
    /\ Len(inner) <= Len(tokens)
    /\ inner = SubSeq(tokens, Len(tokens) - Len(inner) + 1, Len(tokens))

\* the tree holds the consumed tokens whenever no Not follows an operand
ConservedWithoutNotAfterOperand ==
    (status = "returned" /\ ~NotAfterOperand) => (InOrder(ret) = Consumed)

\* a Not after the operand a replaces a: [a, Not, b] returns PrefixOp(Not, b)
NotAfterOperandDropsIt ==
    (/\ status = "returned"
     /\ Len(tokens) = 3
     /\ tokens[1].tk \in OperandTokens /\ tokens[2].tk = "Not"
     /\ tokens[3].tk \in OperandTokens)
    => (ret = PrefixOp(tokens[2], Primary(tokens[3])))

\* C22: binary operators to which Parser::precedence gives the same value
\* are left-associative: [a, op1, b, op2, c] parses to
\* InfixOp(op2, InfixOp(op1, a, b), c).
C22_LeftAssociative ==
    (/\ status # "running"
     /\ IsShaped
     /\ precedence(tokens[2]) = precedence(tokens[4]))
    => (status = "returned" /\ ret = LeftNested)

\* C22 witness: 1 - 2 + 3 has been parsed to Plus(Minus(1, 2), 3)
C22_Witness ==
    /\ status = "returned"
    /\ tokens = <<V(1), Op("Minus"), V(2), Op("Plus"), V(3)>>
    /\ ret = InfixOp(Op("Plus"),
                     InfixOp(Op("Minus"), Primary(V(1)), Primary(V(2))),
                     Primary(V(3)))

\* Or and a comparison share the value 50 and associate to the left as well
C22_WitnessOr ==
    /\ status = "returned"
    /\ tokens = <<TokF, Op("Or"), TokSelf, Op("Lt"), TokGroup>>
    /\ ret = LeftNested

(***************************************************************************)
(* Termination of Parser::parse.  The program is sequential: a call that   *)
(* can take a step takes it, which is weak fairness of the next-state      *)
(* relation.                                                               *)
(***************************************************************************)
SpecExprFair == SpecExpr /\ WF_vars(NextExpr)

\* what is left to do: the tokens not yet removed and the open calls
Measure == 2 * Len(inner) + Len(stack)

\* the running call is at line 73, or at line 96 inside the loop
AboutToTake ==
    /\ status = "running"
    /\ Top.pc = "take" \/ (Top.pc = "loop" /\ Top.prec < Top.precedence_r)

\* a step that takes a token removes exactly one, or stops on the empty Vec;
\* every step that leaves the parser running decreases the measure
ParseStepDecreases ==
    /\ AboutToTake =>
           \/ Len(inner') = Len(inner) - 1
           \/ status' = "panicked" /\ inner = <<>> /\ Top.pc = "take"
    /\ Len(inner') <= Len(inner)
    /\ status' = "running" => Measure' < Measure

\* C23: Parser::parse terminates on every finite token sequence: each call
\* and each loop iteration removes a token, so the number of remaining
\* tokens decreases and the call eventually returns or stops with an error.
C23_Terminates == [][ParseStepDecreases]_vars /\ <>(status # "running")

\* C23 witness: the call on - 1 * 2, which recurses twice, has returned with
\* all four tokens removed
C23_Witness ==
    /\ status = "returned"
    /\ tokens = <<Op("Minus"), V(1), Op("Mul"), V(2)>>
    /\ inner = <<>>
    /\ stack = <<>>

(***************************************************************************)
(* The format scan specification: parse_format_string is called on a       *)
(* fence and a content of literal runs, escapes, splices, dollar signs     *)
(* that start no splice and backslashes that start no escape.              *)
(***************************************************************************)
\* the pieces of a content: the text, what it contributes, and whether the
\* fragment scan can read it
ScanPieces ==
    <<[text |-> "hello ", out |-> "hello ", readable |-> TRUE],
      [text |-> "${name}", out |-> "Var(name)", readable |-> TRUE],
      [text |-> "\\n", out |-> "\n", readable |-> TRUE],
      [text |-> "$5", out |-> "$5", readable |-> FALSE],
      [text |-> "\\q", out |-> "\\q", readable |-> FALSE],
      [text |-> "$", out |-> "$", readable |-> FALSE]>>

ScanContents == SeqsUpTo(DOMAIN ScanPieces, MaxPieces)

RECURSIVE ScanText(_, _), ScanOut(_, _), ReadablePrefix(_, _)
\* the content's characters
ScanText(ixs, p) ==
    IF p > Len(ixs) THEN <<>> ELSE Chars(ScanPieces[ixs[p]].text) \o ScanText(ixs, p + 1)

\* the in-order concatenation of what the pieces up to the last contribute
ScanOut(ixs, last) ==
    IF last = 0 THEN "" ELSE ScanOut(ixs, last - 1) \o ScanPieces[ixs[last]].out

\* the number of pieces before the first one the scan cannot read
ReadablePrefix(ixs, p) ==
    IF p > Len(ixs) \/ ~ScanPieces[ixs[p]].readable THEN p - 1
    ELSE ReadablePrefix(ixs, p + 1)

ScanCases ==
    {[text |-> Rep("#", n) \o <<"\"">> \o ScanText(ixs, 1) \o Fence(n)
               \o Chars(AfterString[f]),
      content |-> ScanText(ixs, 1),
      pieces |-> ixs,
      rest |-> Chars(AfterString[f])] :
        n \in 0..MaxHashes, ixs \in ScanContents, f \in DOMAIN AfterString}

InitScan ==
    /\ input \in {c.text : c \in ScanCases}
    /\ entry = "none"
    /\ result = NoResult
    /\ ExprIdle

call_parse_format_string == Call("parse_format_string", parse_format_string(input))

NextScan == call_parse_format_string

SpecScan == InitScan /\ [][NextScan]_vars

\* what the fold over the content leaves unread
Unscanned(content) == FormatFragments("", content).rest

\* C24: a format string is scanned completely or not at all: when
\* parse_format_string succeeds the fold has read the whole content and the
\* result holds what every piece contributes; a content with a dollar sign
\* that starts no splice or a backslash that starts no escape fails.
C24_ScannedCompletely ==
    \A c \in ScanCases :
        (Called /\ input = c.text) =>
            IF ReadablePrefix(c.pieces, 1) = Len(c.pieces)
            THEN /\ result = Ok(c.rest, ScanOut(c.pieces, Len(c.pieces)))
                 /\ Unscanned(c.content) = <<>>
            ELSE result.k \in {"Error", "Failure"}

\* the scan stops at the first piece it cannot read: the call succeeds with
\* what the pieces before it contribute and the rest of the content is
\* dropped
ScanStopsAtFirstUnreadable ==
    \A c \in ScanCases :
        (Called /\ input = c.text) =>
            /\ result = Ok(c.rest, ScanOut(c.pieces, ReadablePrefix(c.pieces, 1)))
            /\ Len(Unscanned(c.content)) =
                   Len(c.content) - Len(ScanText(SubSeq(c.pieces, 1, ReadablePrefix(c.pieces, 1)), 1))

(***************************************************************************)
(* The identifier specification: expr_token_set and var are called on one  *)
(* identifier, a word of the grammar followed by more identifier           *)
(* characters among them.                                                  *)
(***************************************************************************)
\* the words the tokenizer reads before it tries var, and the token each
\* one gives
Words ==
    <<[text |-> "true", token |-> Val(BooleanSeg(TRUE))],
      [text |-> "false", token |-> Val(BooleanSeg(FALSE))],
      [text |-> "null", token |-> Val(NullSeg)],
      [text |-> "self", token |-> Ref("Curr", <<>>)],
      [text |-> "super", token |-> Ref("Super", <<>>)],
      [text |-> "NaN", token |-> Val(FloatSeg("NaN"))],
      [text |-> "Infinity", token |-> Val(FloatSeg("inf"))]>>

\* beginnings that are no word, and ways an identifier goes on
OtherHeads == <<"x", "_", "tru", "nul", "sel", "Na", "Inf", "e", "r", "f", "True">>

IdentTails == <<"ish", "able", "_", "y", "b", "_1">>

\* an identifier, and the word it begins with (0: none)
IdentCases ==
    {[text |-> Chars(Words[w].text \o IdentTails[t]), id |-> Words[w].text \o IdentTails[t],
      word |-> w, tail |-> IdentTails[t]] : w \in DOMAIN Words, t \in DOMAIN IdentTails}
    \cup
    {[text |-> Chars(OtherHeads[h] \o IdentTails[t]), id |-> OtherHeads[h] \o IdentTails[t],
      word |-> 0, tail |-> IdentTails[t]] : h \in DOMAIN OtherHeads, t \in DOMAIN IdentTails}
    \cup
    {[text |-> Chars(OtherHeads[h]), id |-> OtherHeads[h], word |-> 0, tail |-> ""] :
        h \in DOMAIN OtherHeads}

InitIdent ==
    /\ input \in {c.text : c \in IdentCases}
    /\ entry = "none"
    /\ result = NoResult
    /\ ExprIdle

NextIdent == call_expr_token_set \/ call_var

SpecIdent == InitIdent /\ [][NextIdent]_vars

\* C25: an identifier that is none of the words true, false, null, self,
\* super, NaN, Infinity and is not followed by a parenthesis tokenizes to
\* the one-token chunk [Var(id)], also when it begins with one of the words.
C25_IdentifierIsOneVar ==
    \A c \in IdentCases :
        (Called /\ input = c.text /\ entry = "expr_token_set")
            => result = Ok(<<>>, <<Var(c.id)>>)

\* var alone reads the whole identifier; expr_token_set reads it as one
\* variable when it begins with none of the words
IdentifierWithoutWordIsOneVar ==
    \A c \in IdentCases :
        (Called /\ input = c.text) =>
            /\ entry = "var" => result = Ok(<<>>, Var(c.id))
            /\ (entry = "expr_token_set" /\ c.word = 0) => result = Ok(<<>>, <<Var(c.id)>>)

\* an identifier that begins with a word is split: the word's token, then
\* the rest as a variable
IdentifierWithWordIsSplit ==
    \A c \in IdentCases :
        (Called /\ input = c.text /\ entry = "expr_token_set" /\ c.word # 0)
            => result = Ok(<<>>, <<Words[c.word].token, Var(c.tail)>>)

(***************************************************************************)
(* The integer index specification: reference and expr_token_set are       *)
(* called on a pronoun, a path, and a segment [N] with N up to and beyond  *)
(* the 16-bit range.                                                       *)
(***************************************************************************)
\* decimal integers: the digits and the number
IndexNumbers ==
    <<[text |-> "0", n |-> 0], [text |-> "7", n |-> 7], [text |-> "007", n |-> 7],
      [text |-> "32767", n |-> 32767], [text |-> "032767", n |-> 32767],
      [text |-> "32768", n |-> 32768], [text |-> "40000", n |-> 40000],
      [text |-> "65536", n |-> 65536], [text |-> "99999999", n |-> 99999999]>>

\* what stands between the pronoun and the segment, and after the segment
IndexBefore ==
    <<[text |-> "", path |-> <<>>],
      [text |-> ".a", path |-> <<RefIndexStr("a")>>],
      [text |-> "[1]", path |-> <<RefIndexInt(1)>>]>>

IndexAfter ==
    <<[text |-> "", path |-> <<>>],
      [text |-> ".b", path |-> <<RefIndexStr("b")>>]>>

IndexLayouts == <<[open |-> "[", close |-> "]"], [open |-> " [ ", close |-> " ] "]>>

IndexCases ==
    {[text |-> Chars(Pronouns[h].text \o IndexBefore[b].text \o IndexLayouts[l].open
                     \o IndexNumbers[x].text \o IndexLayouts[l].close \o IndexAfter[a].text),
      pronoun |-> Pronouns[h].pronoun,
      before |-> IndexBefore[b].path,
      n |-> IndexNumbers[x].n,
      after |-> IndexAfter[a].path] :
        h \in DOMAIN Pronouns, b \in DOMAIN IndexBefore, l \in DOMAIN IndexLayouts,
        x \in DOMAIN IndexNumbers, a \in DOMAIN IndexAfter}

InitIndex ==
    /\ input \in {c.text : c \in IndexCases}
    /\ entry = "none"
    /\ result = NoResult
    /\ ExprIdle

NextIndex == call_reference \/ call_expr_token_set

SpecIndex == InitIndex /\ [][NextIndex]_vars

\* the largest value of the 16-bit signed index
MaxI16 == 32767

\* the token with the whole path
WholeReference(c) == Ref(c.pronoun, c.before \o <<RefIndexInt(c.n)>> \o c.after)

\* what the entry point returns for one token
OneToken(token) == IF entry = "expr_token_set" THEN <<token>> ELSE token

\* C26: the segment [N] after a pronoun adds the index Int(N) to the path;
\* when N does not fit the 16-bit signed index the tokenizer reports an
\* error, and never another token sequence for the same text.
C26_IntegerIndexRange ==
    \A c \in IndexCases :
        (Called /\ input = c.text) =>
            IF c.n <= MaxI16
            THEN result = Ok(<<>>, OneToken(WholeReference(c)))
            ELSE entry = "expr_token_set" => result.k \in {"Error", "Failure"}

\* an index within the range is added to the path
IndexInRange ==
    \A c \in IndexCases :
        (Called /\ input = c.text /\ c.n <= MaxI16)
            => result = Ok(<<>>, OneToken(WholeReference(c)))

\* an index beyond the range ends the reference before the segment: the
\* reference has the shorter path, and expr_token_set reads the segment as
\* a list literal
IndexBeyondRangeIsAList ==
    \A c \in IndexCases :
        (Called /\ input = c.text /\ c.n > MaxI16) =>
            /\ result.k = "Ok"
            /\ entry = "reference" => result.v = Ref(c.pronoun, c.before)
            /\ entry = "expr_token_set" =>
                   /\ Len(result.v) = 2
                   /\ result.v[1] = Ref(c.pronoun, c.before)
                   /\ result.v[2].tk = "Val" /\ result.v[2].x.t = "List"
                   /\ Len(result.v[2].x.v) = 1 /\ result.v[2].x.v[1].t = "Int"

(***************************************************************************)
(* The lone-comma specification: the list and dict productions and the two *)
(* dispatchers are called on a bracket pair whose body is only a comma, is *)
(* empty, or is one element and a comma.                                   *)
(***************************************************************************)
\* the brackets, and one element of each kind
Brackets ==
    <<[open |-> "[", close |-> "]", element |-> "1", kind |-> "list"],
      [open |-> "{", close |-> "}", element |-> "a: 1", kind |-> "dict"]>>

CommaBodies == <<"only a comma", "empty", "one element and a comma">>

\* the text of a body, with the layouts around the comma, and the same text
\* without the comma
CommaCases ==
    {[text |-> Chars(Brackets[k].open
                     \o (IF CommaBodies[b] = "one element and a comma"
                         THEN Brackets[k].element ELSE "")
                     \o Layouts[before]
                     \o (IF CommaBodies[b] = "empty" THEN "" ELSE ",")
                     \o Layouts[after] \o Brackets[k].close \o Suffixes[suffix]),
      without |-> Chars(Brackets[k].open \o Layouts[before] \o Layouts[after]
                        \o Brackets[k].close \o Suffixes[suffix]),
      body |-> CommaBodies[b],
      kind |-> Brackets[k].kind,
      blank |-> before = BlankComment \/ after = BlankComment] :
        k \in DOMAIN Brackets, b \in DOMAIN CommaBodies, before \in DOMAIN Layouts,
        after \in DOMAIN Layouts, suffix \in DOMAIN Suffixes}

InitComma ==
    /\ input \in {c.text : c \in CommaCases}
    /\ entry = "none"
    /\ result = NoResult
    /\ ExprIdle

NextComma ==
    \/ call_parse_lst
    \/ call_parse_literal_lst
    \/ call_parse_dict
    \/ call_parse_literal_dict
    \/ call_eson
    \/ call_eson_literal

SpecComma == InitComma /\ [][NextComma]_vars

\* the entry points that read a list, and those that read a dict
ReadersOf(kind) ==
    {"eson", "eson_literal"}
    \cup (IF kind = "list" THEN {"parse_lst", "parse_literal_lst"}
          ELSE {"parse_dict", "parse_literal_dict"})

\* C27: a list or dict whose body is only a comma, with any white space or
\* comments around it, is rejected by parse_lst, parse_dict and their
\* literal forms: a comma needs a preceding element.
C27_LoneCommaRejected ==
    \A c \in CommaCases :
        (Called /\ input = c.text /\ entry \in ReadersOf(c.kind) /\ c.body = "only a comma")
            => result.k \in {"Error", "Failure"}

\* a body of only a comma is read as the empty list or dict: the outcome is
\* that of the same text without the comma
LoneCommaReadAsEmpty ==
    \A c \in CommaCases :
        (/\ Called /\ input = c.text /\ entry \in ReadersOf(c.kind)
         /\ c.body = "only a comma" /\ ~c.blank)
        => /\ result.k = "Ok"
           /\ SameOutcome(result, Parse(entry, c.without))

\* the empty body and the body of one element and a comma are accepted
CommaAfterElementAccepted ==
    \A c \in CommaCases :
        (/\ Called /\ input = c.text /\ entry \in ReadersOf(c.kind)
         /\ c.body # "only a comma" /\ ~c.blank)
        => result.k = "Ok"

(***************************************************************************)
(* The key specification: key is called on a key name preceded by zero or  *)
(* more annotations.                                                       *)
(***************************************************************************)
\* annotations: a text and the annotation it denotes
KeyAnnotations ==
    <<[text |-> "@bar", value |-> Annotation("bar", None)],
      [text |-> "@bar()", value |-> Annotation("bar", Some(<<>>))],
      [text |-> "@bar(1)", value |-> Annotation("bar", Some(<<IntSeg(I64(1))>>))],
      [text |-> "@baz(1, 2)", value |-> Annotation("baz", Some(<<IntSeg(I64(1)), IntSeg(I64(2))>>))]>>

\* what stands after each annotation
KeySeparators == <<" ", "\n", " \t\n  ">>

\* key names: a text and the name it denotes
KeyNames ==
    <<[text |-> "foo", name |-> "foo"], [text |-> "\"a b\"", name |-> "a b"]>>

\* what follows the key
AfterKey == <<"", ": 1">>

AnnotationLists == SeqsUpTo(DOMAIN KeyAnnotations, MaxItems)

RECURSIVE AnnotationsText(_, _, _)
AnnotationsText(ixs, sep, p) ==
    IF p > Len(ixs) THEN ""
    ELSE KeyAnnotations[ixs[p]].text \o sep \o AnnotationsText(ixs, sep, p + 1)

KeyCases ==
    {[text |-> Chars(AnnotationsText(ixs, KeySeparators[s], 1) \o KeyNames[n].text
                     \o AfterKey[f]),
      name |-> KeyNames[n].name,
      annotations |-> [p \in DOMAIN ixs |-> KeyAnnotations[ixs[p]].value],
      rest |-> Chars(AfterKey[f])] :
        ixs \in AnnotationLists, s \in DOMAIN KeySeparators, n \in DOMAIN KeyNames,
        f \in DOMAIN AfterKey}

InitKey ==
    /\ input \in {c.text : c \in KeyCases}
    /\ entry = "none"
    /\ result = NoResult
    /\ ExprIdle

call_key == Call("key", Parse("key", input))

NextKey == call_key \/ call_parse_annotations

SpecKey == InitKey /\ [][NextKey]_vars

\* C28: the key parser returns annotation = None for a key preceded by no
\* annotation, and Some of exactly the k annotations in source order for a
\* key preceded by k >= 1 annotations; the field itself is compared.
C28_KeyAnnotationField ==
    \A c \in KeyCases :
        (Called /\ input = c.text /\ entry = "key") =>
            /\ result.k = "Ok"
            /\ result.rest = c.rest
            /\ result.v.name = c.name
            /\ result.v.annotation = IF c.annotations = <<>> THEN None ELSE Some(c.annotations)

\* the field is always Some: of the annotations in source order, and of the
\* empty Vec for a key preceded by no annotation; parse_annotations
\* succeeds with the empty Vec on such a key
KeyAnnotationIsAlwaysSome ==
    \A c \in KeyCases :
        (Called /\ input = c.text) =>
            /\ entry = "key" => result = Ok(c.rest, Key(c.name, Some(c.annotations)))
            /\ entry = "parse_annotations" => result.k = "Ok" /\ result.v = c.annotations

\* under Key equality the result equals the key with annotation None
KeyEqualByNameAlone ==
    \A c \in KeyCases :
        (Called /\ input = c.text /\ entry = "key") => Key_eq(result.v, Key(c.name, None))

(***************************************************************************)
(* The operator specification: operator, expr_token_set and eson are       *)
(* called on an operator text, alone and between two operands.             *)
(***************************************************************************)
\* the operator texts of the tokenizer, the caret among them
OperatorTexts == {Operators[n][1] : n \in DOMAIN Operators}

\* what stands before the operator and after it
LeftOperands == <<"", "a", "1", "${a">>
RightOperands == <<"", "b", "2", "b}">>
OperatorPads == <<"", " ", "\n ">>

OperatorCases ==
    {[text |-> Chars(LeftOperands[l] \o OperatorPads[p] \o op \o OperatorPads[q]
                     \o RightOperands[r]),
      op |-> op,
      left |-> LeftOperands[l],
      rest |-> Chars(RightOperands[r])] :
        l \in DOMAIN LeftOperands, p \in DOMAIN OperatorPads, op \in OperatorTexts,
        q \in DOMAIN OperatorPads, r \in DOMAIN RightOperands}

InitOperator ==
    /\ input \in {c.text : c \in OperatorCases}
    /\ entry = "none"
    /\ result = NoResult
    /\ ExprIdle

call_operator == Call("operator", Parse("operator", input))

NextOperator == call_operator \/ call_expr_token_set \/ call_eson

SpecOperator == InitOperator /\ [][NextOperator]_vars

\* the token of an operator text: the first alternative with that text
OperatorToken(op) ==
    Op(Operators[CHOOSE n \in DOMAIN Operators :
                     Operators[n][1] = op /\ \A m \in 1..(n - 1) : Operators[m][1] # op][2])

\* C29: the caret is lexed: on an input whose next character after white
\* space is ^ the operator production returns a token and the remaining
\* input, or at least a recoverable result, and tokenizing an expression
\* that holds ^ in operator position never aborts the process.
C29_CaretIsLexed ==
    \A c \in OperatorCases :
        (Called /\ input = c.text /\ c.op = "^") =>
            /\ result.k # "Panic"
            /\ (entry = "operator" /\ c.left = "") => result.k \in {"Ok", "Error"}

\* every other operator text is read as its token, the white space around
\* it included
OtherOperatorsLexed ==
    \A c \in OperatorCases :
        (Called /\ input = c.text /\ c.op # "^" /\ entry = "operator" /\ c.left = "")
            => result = Ok(c.rest, OperatorToken(c.op))

\* the caret reaches unreachable!(): operator aborts on it, and so does the
\* tokenizer with the caret in operator position
CaretAborts ==
    \A c \in OperatorCases :
        (Called /\ input = c.text /\ c.op = "^") =>
            /\ (entry = "operator" /\ c.left = "") => result.k = "Panic"
            /\ (entry = "expr_token_set" /\ c.left \in {"", "a", "1"}) => result.k = "Panic"
            /\ (entry = "eson" /\ c.left = "${a") => result.k = "Panic"

(***************************************************************************)
(* The agreement specification: the live and the literal dispatcher and    *)
(* productions are called on texts that hold no expression literal and no  *)
(* format string as a value: well-formed values, broken ones, and both     *)
(* inside lists and dicts.                                                 *)
(***************************************************************************)
\* values of the literal grammar
PlainValues ==
    <<"1", "-2.5e3", "0x1F", "0b101", "NaN", "-Infinity", "\"s\"", "\"a ${x}\"",
      "r#\"raw\"#", "true", "false", "null", "[]", "{}", "[1, \"s\", ]",
      "{a: 1, \"b\": [true]}", "{@k(1) a: null}", "{f\"k\": 1}">>

\* texts that are no value, or a value followed by more text
BrokenValues ==
    <<"", "tru", "nulls", "x", "f", "r", "[1 2]", "{a 1}", "[1,", "{a: }", "\"open",
      "0x8000000000000000", "1.", ".5", "+1", "01", "[,]", "{,}", "- 1", "@a 1",
      "r#\"a\"", "\"\\q\"", "truefalse", "1 2", "]", "}", "f#x", "f\"open">>

AgreeValues == PlainValues \o BrokenValues

\* the places a value stands in
AgreeContexts ==
    <<[before |-> "", after |-> ""],
      [before |-> " // c\n ", after |-> ""],
      [before |-> "", after |-> " x"],
      [before |-> "[", after |-> "]"],
      [before |-> "[1, ", after |-> " // c\n, ]"],
      [before |-> "[[", after |-> "], 2]"],
      [before |-> "{k: ", after |-> "}"],
      [before |-> "{k: 1, @n(2) \"j\": ", after |-> ",}"],
      [before |-> "{k: [", after |-> "]}"]>>

\* elements of the generated lists and dicts
AgreeElements == <<"1", "\"s\"", "null", "[true]", "{a: 0x1F}", "x">>

AgreeBodies == SeqsUpTo(DOMAIN AgreeElements, MaxItems)

RECURSIVE AgreePairs(_, _)
\* the elements as the pairs of a dict, the keys k1, k2, ...
AgreePairs(ixs, p) ==
    IF p > Len(ixs) THEN ""
    ELSE (IF p = 1 THEN "k1: " ELSE IF p = 2 THEN "k2: " ELSE "k3: ") \o AgreeElements[ixs[p]]
         \o (IF p = Len(ixs) THEN "" ELSE ", " \o AgreePairs(ixs, p + 1))

AgreeInputs ==
    {Chars(AgreeContexts[c].before \o AgreeValues[v] \o AgreeContexts[c].after) :
        c \in DOMAIN AgreeContexts, v \in DOMAIN AgreeValues}
    \cup {Chars("[" \o Joined(AgreeElements, ixs, 1) \o "]") : ixs \in AgreeBodies}
    \cup {Chars("{" \o AgreePairs(ixs, 1) \o "}") : ixs \in AgreeBodies}

InitAgree ==
    /\ input \in AgreeInputs
    /\ entry = "none"
    /\ result = NoResult
    /\ ExprIdle

NextAgree ==
    \/ call_eson
    \/ call_eson_literal
    \/ call_parse_lst
    \/ call_parse_literal_lst
    \/ call_parse_dict
    \/ call_parse_literal_dict

SpecAgree == InitAgree /\ [][NextAgree]_vars

\* the entry point of the other grammar
Counterpart(name) ==
    CASE name = "eson" -> "eson_literal"
      [] name = "eson_literal" -> "eson"
      [] name = "parse_lst" -> "parse_literal_lst"
      [] name = "parse_literal_lst" -> "parse_lst"
      [] name = "parse_dict" -> "parse_literal_dict"
      [] name = "parse_literal_dict" -> "parse_dict"

\* both fail, or both succeed with the same value and remaining input
Agree(r1, r2) ==
    IF r1.k = "Ok" THEN r2.k = "Ok" /\ r2.rest = r1.rest /\ r2.v = r1.v
    ELSE r2.k # "Ok"

\* C30: on a text that holds no expression literal and no format string as
\* a value, eson and eson_literal (and the list and dict productions under
\* them) either both fail or both succeed with the same remaining input and
\* equal values: the order of their alternatives is not observable.
C30_DispatchersAgree == Called => Agree(result, Parse(Counterpart(entry), input))

\* C30 witness: both dispatchers have read a dict of a number, a string, a
\* list and an annotated key to the same value
C30_Witness ==
    /\ entry = "eson_literal"
    /\ input = Chars("{k: 1, @n(2) \"j\": {a: 1, \"b\": [true]},}")
    /\ result.k = "Ok"
    /\ result.rest = <<>>
    /\ result.v.t = "Dict"
    /\ result = Parse("eson", input)

\* both fail on a broken value inside a list
C30_WitnessFailure ==
    /\ entry = "eson"
    /\ input = Chars("[1, [1 2] // c\n, ]")
    /\ result.k = "Failure"
    /\ Parse("eson_literal", input).k = "Failure"

====
